---------------------------- MODULE Spec2Model ----------------------------
(***************************************************************************)
(* State-machine model of the SafetyMonitor of the game-automation tool    *)
(* (wow-game-agent/src/core/safety-monitor).                               *)
(*                                                                         *)
(* Numbers.  Times are integer milliseconds counted from the construction  *)
(* of the monitor.  Fractions in [0,1] (confidence, naturalness, fatigue,  *)
(* pattern strength) are fixed-point per-mille integers; the safety score  *)
(* is kept in thousandths of a point (100 points = 100000); the durations  *)
(* of the configuration, which the code holds in minutes, are per-mille    *)
(* too (1000 = one minute).  NaN is the JavaScript not-a-number, kept as a *)
(* distinguished value.                                                    *)
(***************************************************************************)
EXTENDS Integers, Sequences, FiniteSets, TLC

(***************************************************************************)
(* Bounds of the model.                                                    *)
(***************************************************************************)
\* number of events the executor emits in one run
MaxEvents == 12
\* the wall clock stops advancing past this many ms since construction
MaxElapsed == 85000
\* number of archived sessions handed to recordSession in one run
MaxSessions == 1

(***************************************************************************)
(* Program constants.                                                      *)
(***************************************************************************)
InputHistoryLimit == 10000
InputHistoryTrim == 5000
AlertLimit == 1000
AlertTrim == 500
HistoryWarnSize == 15000
RecentAlertWindow == 300000
RecentAlertLimit == 10
OperationHistoryLimit == 1000
OperationHistoryTrim == 500
ShortInterval == 50
MinAnalysisEvents == 10
AnalysisWindow == 50
MaxPatternLength == 10
\* milliseconds in a thousandth of a minute (minutes * 60 * 1000)
MsPerMilleMinute == 60

NaN == -1
NoTime == -1
NoTimer == -1

\* the clock steps the environment takes (ms)
TimeSteps == {24000, 61000}

\* the callbacks a caller can pass to startMonitoring: none, one that
\* returns, one that raises
Callbacks == {"undefined", "returns", "throws"}

VARIABLES
    config,                 \* ISafetyRuleConfig
    now,                    \* Date.now()
    isActive,
    safetyCheckTimer,       \* due time of the armed interval timer, or NoTimer
    emergencyStopCallback,
    alerts,
    usageStats,
    inputHistory,
    sessionHistory,
    stream,                 \* the burst of events the executor emits
    emitted,                \* how many of them it has emitted
    emergencyStops,         \* number of times the caller's callback ran
    last,                   \* what the last handler did
    session,                \* HumanInputSimulator.session (its counters)
    keyConfig,              \* the IKeyboardInputConfig object of the caller
    listed,                 \* the modifiers as the caller listed them in it
    inFlight,               \* the operation being executed, or Idle
    injected,               \* the injection-port calls of that operation
    thrown,                 \* the error it raised to the caller, or NoError
    calls,                  \* number of operations called so far
    behaviorConfig,         \* BehaviorRandomizer.config
    attentionState,         \* BehaviorRandomizer.attentionState
    operationHistory,       \* BehaviorRandomizer.operationHistory
    randomized,             \* what randomizeDelay last returned, and for what
    pathConfig,             \* the IMousePathConfig given to generateMousePath
    path,                   \* the path generateMousePath returned
    eventHistory,           \* HumanInputSimulator.eventHistory
    statistics,             \* HumanInputSimulator.statistics
    returned,               \* what getStatistics returned since the last event
    variations,             \* BehaviorRandomizer.variations
    stargazers,             \* the stargazers GitHub lists for the repository
    checkpointFile,         \* the checkpoint file of the repository, or none
    checkpoint,             \* the CheckpointData crawlRepository works on
    crawl,                  \* the crawlRepository call in progress
    requests,               \* the requests the GitHubClient has sent
    outputFile,             \* the records of the progress file (options.output)
    checkpointDir,          \* the file names in ./checkpoints
    savedRepositories,      \* the repositories a checkpoint was saved for
    listedCheckpoints,      \* what listCheckpoints returned, and for what
    patternInput,           \* the argument of detectRepeatingPattern
    patternOutput           \* what it returned for it

monitorVars == <<config, now, isActive, safetyCheckTimer,
                 emergencyStopCallback, alerts, usageStats, inputHistory,
                 sessionHistory, stream, emitted, emergencyStops, last>>

\* the event log of the executor and the statistics it reports
statisticsVars == <<eventHistory, statistics, returned>>

executorVars == <<session, keyConfig, listed, inFlight, injected, thrown,
                  calls, statisticsVars>>

\* the state of the randomizer and of the path generator
pureVars == <<behaviorConfig, attentionState, operationHistory, randomized,
              pathConfig, path, variations>>

\* the state of the stargazer crawler and of its checkpoint file
\* the checkpoint directory as CheckpointManager names and lists its files
directoryVars == <<checkpointDir, savedRepositories, listedCheckpoints>>

crawlerVars == <<stargazers, checkpointFile, checkpoint, crawl, requests,
                 outputFile, directoryVars>>

\* a call of the monitor's pattern detector on a sequence of its own
detectorVars == <<patternInput, patternOutput>>

vars == <<config, now, isActive, safetyCheckTimer, emergencyStopCallback,
          alerts, usageStats, inputHistory, sessionHistory, stream,
          emitted, emergencyStops, last, session, keyConfig, listed,
          inFlight, injected, thrown, calls, behaviorConfig,
          attentionState, operationHistory, randomized, pathConfig, path,
          eventHistory, statistics, returned, variations, stargazers,
          checkpointFile, checkpoint, crawl, requests, outputFile,
          checkpointDir, savedRepositories, listedCheckpoints, patternInput,
          patternOutput>>

\* no operation has been called yet
Idle == [op |-> "none", args |-> <<>>, steps |-> <<>>, state |-> "idle",
         startTime |-> 0,
         before |-> [operationCount |-> 0, errorCount |-> 0]]

NoError == "none"

\* the modifier lists a caller puts in a keyboard config
ModifierLists == {<<>>, <<"control", "shift">>, <<"control", "shift", "alt">>}

NoDelay == [baseDelay |-> 0, delay |-> 0, variations |-> <<>>]

\* attentionState.focusPoint before the first change of focus (undefined)
NoFocusPoint == [x |-> -1, y |-> -1]

NoPath == <<>>

\* the randomizer as its constructor leaves it with no config given, and
\* no path asked for
RandomizerConstructed ==
    /\ behaviorConfig = [strategy |-> "moderate",
                         rhythmicVariation |-> 300,
                         attentionDrift |-> 200,
                         fatigueProgression |-> 100]
    /\ attentionState = [level |-> 800, focusPoint |-> NoFocusPoint, lastFocusChange |-> 0,
                         driftVector |-> [x |-> 0, y |-> 0]]
    /\ operationHistory = <<>>
    /\ randomized = NoDelay
    /\ pathConfig = [startPoint |-> [x |-> 0, y |-> 0],
                     endPoint |-> [x |-> 0, y |-> 0],
                     curvature |-> 300, speed |-> 300, deviation |-> 5,
                     noise |-> 0]
    /\ path = NoPath
    /\ variations = <<>>

\* the executor as its constructor leaves it, on a fresh session, and the
\* keyboard config object the caller has built
ExecutorConstructed ==
    /\ session = [operationCount |-> 0, errorCount |-> 0, fatigueLevel |-> 0]
    /\ keyConfig \in {[key |-> "a", modifiers |-> m] : m \in ModifierLists}
    /\ listed = keyConfig.modifiers
    /\ inFlight = Idle
    /\ injected = <<>>
    /\ thrown = NoError
    /\ calls = 0
    /\ eventHistory = <<>>
    /\ statistics = [totalEvents |-> 0, averageReactionTime |-> 0,
                     mousePathAccuracy |-> 0, errorRate |-> 0,
                     fatigueScore |-> 0, humanLikenessScore |-> 0,
                     lastUpdate |-> 0]
    /\ returned = <<>>

NoCheckpoint == [repository |-> "none"]

\* no crawlRepository call is running: remaining and i are the list and
\* the index of the loop of processUsersProgressively, loaded is the
\* checkpoint the call resumed from, users the result it returned, runs the
\* number of calls so far
NotCrawling ==
    [state |-> "idle", remaining |-> <<>>, i |-> 0, processedInBatch |-> 0,
     loaded |-> NoCheckpoint, users |-> <<>>, runs |-> 0]

\* listCheckpoints has not been called
NotListed == [called |-> FALSE, names |-> {}, saved |-> {}]

\* the checkpoint directory is empty
DirectoryEmpty ==
    /\ checkpointDir = {}
    /\ savedRepositories = {}
    /\ listedCheckpoints = NotListed

\* no crawl has been started, no checkpoint file and no progress file exists
CrawlerIdle ==
    /\ stargazers = <<>>
    /\ checkpointFile = NoCheckpoint
    /\ checkpoint = NoCheckpoint
    /\ crawl = NotCrawling
    /\ requests = <<>>
    /\ outputFile = <<>>
    /\ DirectoryEmpty

\* the pattern detector has not been called
DetectorIdle ==
    /\ patternInput = <<>>
    /\ patternOutput = -1

(***************************************************************************)
(* Arithmetic helpers.                                                     *)
(***************************************************************************)
Abs(a) == IF a < 0 THEN 0 - a ELSE a
\* x * f for a fraction f per mille
Scale(x, f) == (x * f) \div 1000
Min(a, b) == IF a <= b THEN a ELSE b
Max(a, b) == IF a >= b THEN a ELSE b

RECURSIVE SumSeq(_)
SumSeq(s) == IF s = <<>> THEN 0 ELSE Head(s) + SumSeq(Tail(s))

RECURSIVE SumSq(_)
SumSq(s) == IF s = <<>> THEN 0 ELSE Head(s) * Head(s) + SumSq(Tail(s))

\* Math.sqrt, rounded down to an integer
RECURSIVE SqrtSearch(_, _, _)
SqrtSearch(n, lo, hi) ==
    IF lo >= hi THEN lo
    ELSE LET mid == (lo + hi + 1) \div 2
         IN  IF mid * mid <= n THEN SqrtSearch(n, mid, hi)
             ELSE SqrtSearch(n, lo, mid - 1)

ISqrt(n) == SqrtSearch(n, 0, 46340)

\* Math.log2(n) * 1000 for n in 1..50
Log2Table ==
    <<0, 1000, 1585, 2000, 2322, 2585, 2807, 3000, 3170, 3322,
      3459, 3585, 3700, 3807, 3907, 4000, 4087, 4170, 4248, 4322,
      4392, 4459, 4524, 4585, 4644, 4700, 4755, 4807, 4858, 4907,
      4954, 5000, 5044, 5087, 5129, 5170, 5209, 5248, 5285, 5322,
      5358, 5392, 5426, 5459, 5492, 5524, 5555, 5585, 5615, 5644>>

\* Array.prototype.slice(-n)
LastN(s, n) == IF Len(s) <= n THEN s ELSE SubSeq(s, Len(s) - n + 1, Len(s))


(***************************************************************************)
(* Pattern analysis (pure functions of the input history).                 *)
(***************************************************************************)
patternsEqual(pattern1, pattern2) ==
    /\ Len(pattern1) = Len(pattern2)
    /\ \A i \in 1..Len(pattern1) : pattern1[i] = pattern2[i]

isPatternRepeating(sequence, patternLength) ==
    IF Len(sequence) % patternLength # 0 THEN FALSE
    ELSE LET pattern == SubSeq(sequence, 1, patternLength)
             repetitions == Len(sequence) \div patternLength
         IN  \A i \in 1..(repetitions - 1) :
                 patternsEqual(pattern,
                     SubSeq(sequence, i * patternLength + 1,
                            i * patternLength + patternLength))

\* the loop started at length 1
detectRepeatingPattern_FromOne(sequence) ==
    LET candidates == {l \in 1..MaxPatternLength :
                          /\ 2 * l <= Len(sequence)
                          /\ isPatternRepeating(sequence, l)}
    IN  IF candidates = {} THEN 0
        ELSE CHOOSE l \in candidates : \A k \in candidates : l <= k

\* the loop runs length = 2 .. min(sequence.length / 2, 10) and returns the
\* first length that repeats
detectRepeatingPattern(sequence) ==
    LET candidates == {l \in 2..MaxPatternLength :
                          /\ 2 * l <= Len(sequence)
                          /\ isPatternRepeating(sequence, l)}
    IN  IF candidates = {} THEN 0
        ELSE CHOOSE l \in candidates : \A k \in candidates : l <= k

\* Math.min(1, patternLength / 5), per mille
calculatePatternStrength(sequence, patternLength) ==
    Min(1000, patternLength * 200)

\* min(1, 2 * stdDev / mean) of the intervals between consecutive events,
\* per mille; calculateVariability returns 1 when the mean is not positive
calculateTimingVariability(events) ==
    IF Len(events) < 2 THEN 500
    ELSE LET intervals == [i \in 1..(Len(events) - 1) |->
                              events[i + 1].timestamp - events[i].timestamp]
             n == Len(intervals)
             S == SumSeq(intervals)
             D == n * SumSq(intervals) - S * S
         IN  IF S > 0
             THEN Min(1000, (200 * ISqrt(D * 100)) \div S)
             ELSE 1000

\* Shannon entropy of the event types over log2(number of types), per mille
calculateTypeDiversity(events) ==
    LET n == Len(events)
        present == {events[i].type : i \in 1..n}
        count(t) == Cardinality({i \in 1..n : events[i].type = t})
        RECURSIVE weighted(_)
        weighted(ts) ==
            IF ts = {} THEN 0
            ELSE LET t == CHOOSE x \in ts : TRUE
                 IN  count(t) * (Log2Table[n] - Log2Table[count(t)])
                     + weighted(ts \ {t})
        entropy == weighted(present) \div n
        maxEntropy == Log2Table[Cardinality(present)]
    IN  IF maxEntropy > 0 THEN Min(1000, (entropy * 1000) \div maxEntropy)
        ELSE 0

calculateNaturalness(events) ==
    IF Len(events) = 0 THEN 0
    ELSE LET avgConfidence ==
                 SumSeq([i \in 1..Len(events) |-> events[i].confidence])
                     \div Len(events)
             timingVariability == calculateTimingVariability(events)
             typeDiversity == calculateTypeDiversity(events)
         IN  (avgConfidence * 4 + timingVariability * 3 + typeDiversity * 3)
                 \div 10

\* the variability of the event durations is computed by the code but read
\* by no rule; it is left out of the analysis record
analyzeBehaviorPatterns ==
    IF Len(inputHistory) < MinAnalysisEvents
    THEN [isRepetitive |-> FALSE, patternLength |-> 0, patternStrength |-> 0,
          naturalness |-> 800]
    ELSE LET recentEvents == LastN(inputHistory, AnalysisWindow)
             eventTypes == [i \in 1..Len(recentEvents) |-> recentEvents[i].type]
             patternLength == detectRepeatingPattern(eventTypes)
             isRepetitive == patternLength > 2
         IN  [isRepetitive |-> isRepetitive,
              patternLength |-> patternLength,
              patternStrength |->
                  IF isRepetitive
                  THEN calculatePatternStrength(eventTypes, patternLength)
                  ELSE 0,
              naturalness |-> calculateNaturalness(recentEvents)]

(***************************************************************************)
(* Fatigue and safety score.                                               *)
(***************************************************************************)
\* operationCount / (sessionDuration / 60000) is 0/0 = NaN in the first
\* millisecond of a monitor that has counted no operation, and every sum
\* and Math.min over it stays NaN
fatigueAt(sessionDuration, operationCount) ==
    LET maxMs == config.maxSessionDuration * MsPerMilleMinute
        timeFatigue == Min(1000, (sessionDuration * 1000) \div maxMs)
        rateIsNaN == sessionDuration = 0 /\ operationCount = 0
        rateFatigue ==
            IF sessionDuration = 0 THEN 1000
            ELSE Min(1000,
                     (operationCount * 3000000) \div sessionDuration)
        recentSessions == LastN(sessionHistory, 10)
        totalErrors ==
            SumSeq([i \in 1..Len(recentSessions) |-> recentSessions[i].errorCount])
        totalOperations ==
            SumSeq([i \in 1..Len(recentSessions) |->
                        recentSessions[i].operationCount])
        errorFatigue ==
            IF Len(recentSessions) > 0 /\ totalOperations > 0
            THEN Min(1000, (totalErrors * 1000000)
                               \div (totalOperations * config.maxErrorRate))
            ELSE 0
    IN  IF rateIsNaN THEN NaN
        ELSE Min(1000, (timeFatigue * 4 + rateFatigue * 3 + errorFatigue * 3)
                           \div 10)

\* Date.now() - sessionStartTime and usageStats.operationCount at the call
calculateFatigueLevel ==
    fatigueAt(now - usageStats.sessionStartTime, usageStats.operationCount)

recentAlertsOf(as) ==
    SelectSeq(as, LAMBDA a : now - a.timestamp < RecentAlertWindow)

alertPenalty(level) ==
    CASE level = "emergency" -> 30
      [] level = "critical" -> 20
      [] level = "warning" -> 10
      [] level = "info" -> 5
      [] OTHER -> 0

\* Math.max(0, Math.min(100, score)), in thousandths of a point; both
\* Math.min and Math.max return NaN for a NaN operand
calculateSafetyScore ==
    LET recentAlerts == recentAlertsOf(alerts)
        penalties ==
            SumSeq([i \in 1..Len(recentAlerts) |->
                        alertPenalty(recentAlerts[i].level)])
        fatigueLevel == calculateFatigueLevel
        behaviorAnalysis == analyzeBehaviorPatterns
        score == 100000 - penalties * 1000 - fatigueLevel * 15
                 - (IF behaviorAnalysis.isRepetitive
                    THEN behaviorAnalysis.patternStrength * 10 ELSE 0)
                 - (IF behaviorAnalysis.naturalness < 700
                    THEN (700 - behaviorAnalysis.naturalness) * 20 ELSE 0)
    IN  IF fatigueLevel = NaN THEN NaN
        ELSE Max(0, Min(100000, score))

\* every comparison with NaN is false
determineSafetyLevel(score) ==
    IF score # NaN /\ score >= 80000 THEN "safe"
    ELSE IF score # NaN /\ score >= 60000 THEN "warning"
    ELSE "danger"

getSafetyStatus ==
    LET score == calculateSafetyScore
    IN  [level |-> determineSafetyLevel(score),
         score |-> score,
         lastCheck |-> usageStats.lastSafetyCheck,
         alerts |-> [i \in 1..Len(recentAlertsOf(alerts)) |->
                        recentAlertsOf(alerts)[i].message]]


(***************************************************************************)
(* Handlers.  A handler runs on a working copy of the fields it writes:    *)
(*   alerts, stats  the monitor's alert list and usage statistics          *)
(*   created        the alerts created so far by this handler              *)
(*   cb             where the emergency callback was invoked from, and for *)
(*                  which alert when createAlert invoked it                *)
(*   exc            an exception is propagating                            *)
(***************************************************************************)
Work == [alerts |-> alerts, stats |-> usageStats, created |-> <<>>,
         cb |-> <<>>, exc |-> FALSE]

\* a statement is skipped while an exception propagates: next is the state
\* after the statement, taken only when w carries no exception
Then(w, next) == IF w.exc THEN w ELSE next

\* this.emergencyStopCallback()
invokeCallback(w, site, alert) ==
    [w EXCEPT !.cb = Append(@, [site |-> site, alert |-> alert]),
              !.exc = (emergencyStopCallback = "throws")]

createAlert(w, level, type, message, triggerEmergencyStop) ==
    LET alert == [level |-> level, type |-> type, message |-> message,
                  timestamp |-> now]
        pushed == [w EXCEPT !.alerts = Append(@, alert),
                            !.stats.alertHistory = Append(@, alert),
                            !.created = Append(@, alert)]
        called == IF /\ triggerEmergencyStop
                     /\ config.enableEmergencyStop
                     /\ emergencyStopCallback # "undefined"
                  THEN invokeCallback(pushed, "createAlert", message)
                  ELSE pushed
        trim(x) == IF Len(x.alerts) > AlertLimit
                   THEN [x EXCEPT !.alerts =
                            SubSeq(@, AlertTrim + 1, Len(@))]
                   ELSE x
    IN  Then(called, trim(called))

\* checkSessionDuration with the 80% threshold tested by > instead of >=
checkSessionDuration_StrictThreshold(w) ==
    LET currentDuration == now - w.stats.sessionStartTime
        maxDuration == config.maxSessionDuration * MsPerMilleMinute
        direct(x) == IF /\ config.enableEmergencyStop
                        /\ emergencyStopCallback # "undefined"
                     THEN invokeCallback(x, "checkSessionDuration", "none")
                     ELSE x
    IN  IF currentDuration >= maxDuration
        THEN LET alerted == createAlert(w, "critical", "excessive_usage",
                                        "session_over_limit",
                                        config.enableEmergencyStop)
             IN  Then(alerted, direct(alerted))
        ELSE IF currentDuration * 10 > maxDuration * 8
        THEN createAlert(w, "warning", "excessive_usage",
                         "session_near_limit", FALSE)
        ELSE w

\* checkSessionDuration that raises the Critical alert only once per session
checkSessionDuration_Latched(w) ==
    LET currentDuration == now - w.stats.sessionStartTime
        maxDuration == config.maxSessionDuration * MsPerMilleMinute
        direct(x) == IF /\ config.enableEmergencyStop
                        /\ emergencyStopCallback # "undefined"
                     THEN invokeCallback(x, "checkSessionDuration", "none")
                     ELSE x
        raised == \E i \in 1..Len(w.alerts) :
                      /\ w.alerts[i].type = "excessive_usage"
                      /\ w.alerts[i].level = "critical"
    IN  IF currentDuration >= maxDuration
        THEN IF raised
             THEN w
             ELSE LET alerted == createAlert(w, "critical", "excessive_usage",
                                             "session_over_limit",
                                             config.enableEmergencyStop)
                  IN  Then(alerted, direct(alerted))
        ELSE IF currentDuration * 10 >= maxDuration * 8
        THEN createAlert(w, "warning", "excessive_usage",
                         "session_near_limit", FALSE)
        ELSE w

\* checkSessionDuration whose own call of the callback does not look at
\* enableEmergencyStop
checkSessionDuration_AlwaysStops(w) ==
    LET currentDuration == now - w.stats.sessionStartTime
        maxDuration == config.maxSessionDuration * MsPerMilleMinute
        direct(x) == IF emergencyStopCallback # "undefined"
                     THEN invokeCallback(x, "checkSessionDuration", "none")
                     ELSE x
    IN  IF currentDuration >= maxDuration
        THEN LET alerted == createAlert(w, "critical", "excessive_usage",
                                        "session_over_limit",
                                        config.enableEmergencyStop)
             IN  Then(alerted, direct(alerted))
        ELSE IF currentDuration * 10 >= maxDuration * 8
        THEN createAlert(w, "warning", "excessive_usage",
                         "session_near_limit", FALSE)
        ELSE w

checkSessionDuration(w) ==
    LET currentDuration == now - w.stats.sessionStartTime
        maxDuration == config.maxSessionDuration * MsPerMilleMinute
        direct(x) == IF /\ config.enableEmergencyStop
                        /\ emergencyStopCallback # "undefined"
                     THEN invokeCallback(x, "checkSessionDuration", "none")
                     ELSE x
    IN  IF currentDuration >= maxDuration
        THEN LET alerted == createAlert(w, "critical", "excessive_usage",
                                        "session_over_limit",
                                        config.enableEmergencyStop)
             IN  Then(alerted, direct(alerted))
        ELSE IF currentDuration * 10 >= maxDuration * 8
        THEN createAlert(w, "warning", "excessive_usage",
                         "session_near_limit", FALSE)
        ELSE w

\* checkRestRequirement that counts the rest period but does not move the
\* last-rest time
checkRestRequirement_NoLastRest(w) ==
    LET lastRestTime == IF w.stats.lastRestTime # NoTime
                        THEN w.stats.lastRestTime
                        ELSE w.stats.sessionStartTime
        timeSinceLastRest == now - lastRestTime
        requiredInterval == config.requiredRestInterval * MsPerMilleMinute
        register(x) == [x EXCEPT !.stats.restPeriods = @ + 1]
    IN  IF timeSinceLastRest >= requiredInterval
        THEN LET alerted == createAlert(w, "warning", "fatigue_detected",
                                        "rest_required", FALSE)
             IN  Then(alerted, register(alerted))
        ELSE w

checkRestRequirement(w) ==
    LET lastRestTime == IF w.stats.lastRestTime # NoTime
                        THEN w.stats.lastRestTime
                        ELSE w.stats.sessionStartTime
        timeSinceLastRest == now - lastRestTime
        requiredInterval == config.requiredRestInterval * MsPerMilleMinute
        register(x) == [x EXCEPT !.stats.restPeriods = @ + 1,
                                 !.stats.lastRestTime = now]
    IN  IF timeSinceLastRest >= requiredInterval
        THEN LET alerted == createAlert(w, "warning", "fatigue_detected",
                                        "rest_required", FALSE)
             IN  Then(alerted, register(alerted))
        ELSE w

\* checkBehaviorPatterns that does not compare the pattern length with
\* maxRepetitivePatternLength
checkBehaviorPatterns_AnyRepetition(w) ==
    LET analysis == analyzeBehaviorPatterns
        repetitive(x) ==
            IF analysis.isRepetitive
            THEN createAlert(x, "warning", "repetitive_pattern",
                             "repetitive_pattern", FALSE)
            ELSE x
        unnatural(x) ==
            IF analysis.naturalness < 500
            THEN createAlert(x, "critical", "suspicious_behavior",
                             "low_naturalness", config.enableEmergencyStop)
            ELSE x
    IN  Then(repetitive(w), unnatural(repetitive(w)))

\* checkBehaviorPatterns that raises the naturalness alert below 0.7
checkBehaviorPatterns_ManualThreshold(w) ==
    LET analysis == analyzeBehaviorPatterns
        repetitive(x) ==
            IF /\ analysis.isRepetitive
               /\ analysis.patternLength > config.maxRepetitivePatternLength
            THEN createAlert(x, "warning", "repetitive_pattern",
                             "repetitive_pattern", FALSE)
            ELSE x
        unnatural(x) ==
            IF analysis.naturalness < 700
            THEN createAlert(x, "critical", "suspicious_behavior",
                             "low_naturalness", config.enableEmergencyStop)
            ELSE x
    IN  Then(repetitive(w), unnatural(repetitive(w)))

checkBehaviorPatterns(w) ==
    LET analysis == analyzeBehaviorPatterns
        repetitive(x) ==
            IF /\ analysis.isRepetitive
               /\ analysis.patternLength > config.maxRepetitivePatternLength
            THEN createAlert(x, "warning", "repetitive_pattern",
                             "repetitive_pattern", FALSE)
            ELSE x
        unnatural(x) ==
            IF analysis.naturalness < 500
            THEN createAlert(x, "critical", "suspicious_behavior",
                             "low_naturalness", config.enableEmergencyStop)
            ELSE x
    IN  Then(repetitive(w), unnatural(repetitive(w)))

checkFatigueLevel(w) ==
    LET fatigueLevel == calculateFatigueLevel
    IN  IF fatigueLevel # NaN /\ fatigueLevel > config.fatigueThreshold
        THEN createAlert(w, "warning", "fatigue_detected", "high_fatigue",
                         FALSE)
        ELSE w

checkSystemHealth(w) ==
    LET oversize(x) ==
            IF Len(inputHistory) > HistoryWarnSize
            THEN createAlert(x, "info", "system_anomaly", "history_oversize",
                             FALSE)
            ELSE x
        frequent(x) ==
            IF Len(recentAlertsOf(x.alerts)) > RecentAlertLimit
            THEN createAlert(x, "warning", "system_anomaly",
                             "alert_rate_high", FALSE)
            ELSE x
    IN  Then(oversize(w), frequent(oversize(w)))

\* performSafetyCheck whose catch block only logs
performSafetyCheck_SilentCatch(w) ==
    LET w0 == [w EXCEPT !.stats.lastSafetyCheck = now]
        w1 == Then(w0, checkSessionDuration(w0))
        w2 == Then(w1, checkRestRequirement(w1))
        w3 == Then(w2, checkBehaviorPatterns(w2))
        w4 == Then(w3, checkFatigueLevel(w3))
        w5 == Then(w4, checkSystemHealth(w4))
    IN  [w5 EXCEPT !.exc = FALSE]

\* performSafetyCheck without its try/catch: the exception of a rule leaves
\* the function
performSafetyCheck_NoCatch(w) ==
    LET w0 == [w EXCEPT !.stats.lastSafetyCheck = now]
        w1 == Then(w0, checkSessionDuration(w0))
        w2 == Then(w1, checkRestRequirement(w1))
        w3 == Then(w2, checkBehaviorPatterns(w2))
        w4 == Then(w3, checkFatigueLevel(w3))
    IN  Then(w4, checkSystemHealth(w4))

\* the body of the try block, then the catch block
performSafetyCheck(w) ==
    LET w0 == [w EXCEPT !.stats.lastSafetyCheck = now]
        w1 == Then(w0, checkSessionDuration(w0))
        w2 == Then(w1, checkRestRequirement(w1))
        w3 == Then(w2, checkBehaviorPatterns(w2))
        w4 == Then(w3, checkFatigueLevel(w3))
        w5 == Then(w4, checkSystemHealth(w4))
    IN  IF w5.exc
        THEN createAlert([w5 EXCEPT !.exc = FALSE], "warning",
                         "system_anomaly", "check_exception", FALSE)
        ELSE w5

\* performRealTimeSafetyCheck with the confidence tested by <= instead of <
performRealTimeSafetyCheck_AtMost(w, history, event) ==
    LET unnatural(x) ==
            IF event.confidence <= config.minHumanLikenessScore
            THEN createAlert(x, "warning", "unnatural_timing",
                             "low_confidence", FALSE)
            ELSE x
        interval == event.timestamp - history[Len(history) - 1].timestamp
        spacing(x) ==
            IF Len(history) >= 2
            THEN LET y == [x EXCEPT !.stats.operationIntervals =
                                        Append(@, interval)]
                 IN  IF interval < ShortInterval
                     THEN createAlert(y, "info", "suspicious_behavior",
                                      "short_interval", FALSE)
                     ELSE y
            ELSE x
        done == Then(unnatural(w), spacing(unnatural(w)))
    IN  [done EXCEPT !.exc = FALSE]

\* performRealTimeSafetyCheck that asks for more than two events in the
\* history (> 2 instead of >= 2) before it looks at the interval
performRealTimeSafetyCheck_FromThird(w, history, event) ==
    LET unnatural(x) ==
            IF event.confidence < config.minHumanLikenessScore
            THEN createAlert(x, "warning", "unnatural_timing",
                             "low_confidence", FALSE)
            ELSE x
        interval == event.timestamp - history[Len(history) - 1].timestamp
        spacing(x) ==
            IF Len(history) > 2
            THEN LET y == [x EXCEPT !.stats.operationIntervals =
                                        Append(@, interval)]
                 IN  IF interval < ShortInterval
                     THEN createAlert(y, "info", "suspicious_behavior",
                                      "short_interval", FALSE)
                     ELSE y
            ELSE x
        done == Then(unnatural(w), spacing(unnatural(w)))
    IN  [done EXCEPT !.exc = FALSE]

\* runs after the event was pushed: history is the input history with the
\* event at its end
performRealTimeSafetyCheck(w, history, event) ==
    LET unnatural(x) ==
            IF event.confidence < config.minHumanLikenessScore
            THEN createAlert(x, "warning", "unnatural_timing",
                             "low_confidence", FALSE)
            ELSE x
        interval == event.timestamp - history[Len(history) - 1].timestamp
        spacing(x) ==
            IF Len(history) >= 2
            THEN LET y == [x EXCEPT !.stats.operationIntervals =
                                        Append(@, interval)]
                 IN  IF interval < ShortInterval
                     THEN createAlert(y, "info", "suspicious_behavior",
                                      "short_interval", FALSE)
                     ELSE y
            ELSE x
        done == Then(unnatural(w), spacing(unnatural(w)))
    IN  [done EXCEPT !.exc = FALSE]

\* recordInputEvent on an Active monitor: the input history and the working
\* record after the call
recordInputEvent(w, history, event) ==
    LET pushed == Append(history, event)
        kept == IF Len(pushed) > InputHistoryLimit
                THEN SubSeq(pushed, InputHistoryTrim + 1, Len(pushed))
                ELSE pushed
        counted == [w EXCEPT !.stats.operationCount = @ + 1]
    IN  [w |-> performRealTimeSafetyCheck(counted, kept, event),
         history |-> kept]

performManualSafetyCheck ==
    LET currentSessionDuration == now - usageStats.sessionStartTime
        patternAnalysis == analyzeBehaviorPatterns
        fatigueLevel == calculateFatigueLevel
        issues ==
            (IF currentSessionDuration
                    > config.maxSessionDuration * MsPerMilleMinute
             THEN {[type |-> "excessive_duration", severity |-> "high"]}
             ELSE {})
            \cup
            (IF usageStats.operationCount > config.maxContinuousOperations
             THEN {[type |-> "excessive_operations", severity |-> "medium"]}
             ELSE {})
            \cup
            (IF patternAnalysis.isRepetitive
             THEN {[type |-> "repetitive_behavior", severity |-> "medium"]}
             ELSE {})
            \cup
            (IF patternAnalysis.naturalness < 700
             THEN {[type |-> "unnatural_behavior", severity |-> "high"]}
             ELSE {})
            \cup
            (IF fatigueLevel # NaN /\ fatigueLevel > config.fatigueThreshold
             THEN {[type |-> "fatigue_detected", severity |-> "medium"]}
             ELSE {})
        safetyScore == calculateSafetyScore
    IN  [isSafe |-> /\ safetyScore # NaN
                    /\ safetyScore >= 70000
                    /\ \A i \in issues : i.severity # "high",
         issues |-> issues,
         safetyScore |-> safetyScore]


(***************************************************************************)
(* The environment: configurations, event streams, archived sessions.      *)
(***************************************************************************)
\* the constructor's defaults overridden by maxSessionDuration = 1 minute,
\* requiredRestInterval = 0.8 minute, minHumanLikenessScore = 0.9,
\* safetyCheckInterval = 24 seconds and either value of enableEmergencyStop
Configs ==
    {[maxSessionDuration |-> 1000,
      maxContinuousOperations |-> 1000,
      requiredRestInterval |-> 800,
      maxRepetitivePatternLength |-> 5,
      minHumanLikenessScore |-> 900,
      fatigueThreshold |-> 800,
      maxErrorRate |-> 100,
      safetyCheckInterval |-> 24,
      enableEmergencyStop |-> e] : e \in BOOLEAN}

click == "mouse_click"
key == "key_press"

\* the event stream of a run is one burst of the executor: it repeats a
\* block of types and a pace, which is a block of confidences and a block
\* of gaps (ms between consecutive events)
TypeBlocks == {<<click>>, <<click, key>>, <<click, click, key>>,
               <<click, click, click, click, click, key>>}
Paces == {[confidences |-> <<500>>, gaps |-> <<10>>],
          [confidences |-> <<900>>, gaps |-> <<10>>],
          [confidences |-> <<900>>, gaps |-> <<10, 100>>]}

Cyc(block, i) == block[((i - 1) % Len(block)) + 1]

RECURSIVE TimestampAt(_, _)
TimestampAt(gaps, i) ==
    IF i = 0 THEN 0 ELSE TimestampAt(gaps, i - 1) + Cyc(gaps, i)

EventStream(types, confidences, gaps, length) ==
    [i \in 1..length |->
        [type |-> Cyc(types, i),
         confidence |-> Cyc(confidences, i),
         timestamp |-> TimestampAt(gaps, i)]]

StreamLengths == {2, MaxEvents - 1, MaxEvents}

Streams == {EventStream(t, p.confidences, p.gaps, n) :
                t \in TypeBlocks, p \in Paces, n \in StreamLengths}

\* the executor is between bursts: lifecycle calls and clock steps happen
\* here, since the events of a burst are at most 100 ms apart
BetweenBursts == emitted \in {0, Len(stream)}

Sessions == {[operationCount |-> 10, errorCount |-> 2]}

NoEvent == [type |-> "none", confidence |-> 0, timestamp |-> 0]

\* what a handler did, and the rest bookkeeping it started from
Did(op, w, event) ==
    [op |-> op, created |-> w.created, cb |-> w.cb, event |-> event,
     before |-> [lastRestTime |-> usageStats.lastRestTime,
                 restPeriods |-> usageStats.restPeriods]]

\* a handler that creates no alert and invokes no callback
Quiet == [op |-> "none", created |-> <<>>, cb |-> <<>>, event |-> NoEvent,
          before |-> [lastRestTime |-> NoTime, restPeriods |-> 0]]

(***************************************************************************)
(* Initial state: the monitor as its constructor leaves it.                *)
(***************************************************************************)
Init ==
    /\ config \in Configs
    /\ now = 0
    /\ isActive = FALSE
    /\ safetyCheckTimer = NoTimer
    /\ emergencyStopCallback = "undefined"
    /\ alerts = <<>>
    /\ usageStats = [sessionStartTime |-> 0,
                     operationCount |-> 0,
                     restPeriods |-> 0,
                     lastRestTime |-> NoTime,
                     operationIntervals |-> <<>>,
                     alertHistory |-> <<>>,
                     lastSafetyCheck |-> 0]
    /\ inputHistory = <<>>
    /\ sessionHistory = <<>>
    /\ stream \in Streams
    /\ emitted = 0
    /\ emergencyStops = 0
    /\ last = Quiet
    /\ keyConfig = [key |-> "a", modifiers |-> <<>>]   \* no keyboard use here
    /\ ExecutorConstructed
    /\ RandomizerConstructed
    /\ CrawlerIdle
    /\ DetectorIdle

(***************************************************************************)
(* Actions.                                                                *)
(***************************************************************************)
\* startMonitoring without its early return for a monitor that is active
StartMonitoring_Unguarded(callback) ==
    /\ BetweenBursts
    /\ isActive' = TRUE
    /\ emergencyStopCallback' = callback
    /\ safetyCheckTimer' = now + config.safetyCheckInterval * 1000
    /\ last' = Quiet
    /\ UNCHANGED <<config, now, alerts, usageStats, inputHistory,
                   sessionHistory, stream, emitted, emergencyStops>>
    /\ UNCHANGED executorVars
    /\ UNCHANGED pureVars
    /\ UNCHANGED crawlerVars
    /\ UNCHANGED detectorVars

StartMonitoring(callback) ==
    /\ BetweenBursts
    /\ IF isActive
       THEN UNCHANGED <<isActive, emergencyStopCallback, safetyCheckTimer>>
       ELSE /\ isActive' = TRUE
            /\ emergencyStopCallback' = callback
            /\ safetyCheckTimer' = now + config.safetyCheckInterval * 1000
    /\ last' = Quiet
    /\ UNCHANGED <<config, now, alerts, usageStats, inputHistory,
                   sessionHistory, stream, emitted, emergencyStops>>
    /\ UNCHANGED executorVars
    /\ UNCHANGED pureVars
    /\ UNCHANGED crawlerVars
    /\ UNCHANGED detectorVars

\* stopMonitoring that leaves the interval timer armed
StopMonitoring_KeepTimer ==
    /\ BetweenBursts
    /\ IF ~isActive
       THEN UNCHANGED isActive
       ELSE isActive' = FALSE
    /\ last' = Quiet
    /\ UNCHANGED <<config, now, safetyCheckTimer, emergencyStopCallback,
                   alerts, usageStats, inputHistory, sessionHistory, stream,
                   emitted, emergencyStops>>
    /\ UNCHANGED executorVars
    /\ UNCHANGED pureVars
    /\ UNCHANGED crawlerVars
    /\ UNCHANGED detectorVars

StopMonitoring ==
    /\ BetweenBursts
    /\ IF ~isActive
       THEN UNCHANGED <<isActive, safetyCheckTimer>>
       ELSE /\ isActive' = FALSE
            /\ safetyCheckTimer' = NoTimer
    /\ last' = Quiet
    /\ UNCHANGED <<config, now, emergencyStopCallback, alerts, usageStats,
                   inputHistory, sessionHistory, stream, emitted, emergencyStops>>
    /\ UNCHANGED executorVars
    /\ UNCHANGED pureVars
    /\ UNCHANGED crawlerVars
    /\ UNCHANGED detectorVars

\* recordInputEvent without its early return for a monitor that is not active
RecordInputEvent_WhileIdle ==
    /\ emitted < Len(stream)
    /\ emitted' = emitted + 1
    /\ LET event == stream[emitted + 1]
           r == recordInputEvent(Work, inputHistory, event)
       IN  /\ inputHistory' = r.history
           /\ alerts' = r.w.alerts
           /\ usageStats' = r.w.stats
           /\ last' = Did("recordInputEvent", r.w, event)
    /\ UNCHANGED <<config, now, isActive, safetyCheckTimer,
                   emergencyStopCallback, sessionHistory, stream,
                   emergencyStops>>
    /\ UNCHANGED executorVars
    /\ UNCHANGED pureVars
    /\ UNCHANGED crawlerVars
    /\ UNCHANGED detectorVars

\* the executor emits its next event and hands it to recordInputEvent
RecordInputEvent ==
    /\ emitted < Len(stream)
    /\ emitted' = emitted + 1
    /\ LET event == stream[emitted + 1]
       IN  IF ~isActive
           THEN /\ last' = Quiet
                /\ UNCHANGED <<alerts, usageStats, inputHistory>>
           ELSE LET r == recordInputEvent(Work, inputHistory, event)
                IN  /\ inputHistory' = r.history
                    /\ alerts' = r.w.alerts
                    /\ usageStats' = r.w.stats
                    /\ last' = Did("recordInputEvent", r.w, event)
    /\ UNCHANGED <<config, now, isActive, safetyCheckTimer,
                   emergencyStopCallback, sessionHistory, stream,
                   emergencyStops>>
    /\ UNCHANGED executorVars
    /\ UNCHANGED pureVars
    /\ UNCHANGED crawlerVars
    /\ UNCHANGED detectorVars

\* the executor archives a finished session
RecordSession(archived) ==
    /\ BetweenBursts
    /\ Len(sessionHistory) < MaxSessions
    /\ LET pushed == Append(sessionHistory, archived)
       IN  sessionHistory' = IF Len(pushed) > 100
                             THEN SubSeq(pushed, 51, Len(pushed))
                             ELSE pushed
    /\ last' = Quiet
    /\ UNCHANGED <<config, now, isActive, safetyCheckTimer,
                   emergencyStopCallback, alerts, usageStats, inputHistory,
                   stream, emitted, emergencyStops>>
    /\ UNCHANGED executorVars
    /\ UNCHANGED pureVars
    /\ UNCHANGED crawlerVars
    /\ UNCHANGED detectorVars

\* the interval timer set by startMonitoring comes due and runs
\* performSafetyCheck; setInterval re-arms it
\* the effects of the timer callback, w being the monitor after the check;
\* an exception that leaves the callback is uncaught: it ends the process,
\* and the operation in flight with it
TimerEffect(w) ==
    /\ alerts' = w.alerts
    /\ usageStats' = w.stats
    /\ emergencyStops' = emergencyStops + Len(w.cb)
    /\ last' = Did("performSafetyCheck", w, NoEvent)
    /\ inFlight' = IF w.exc
                   THEN [inFlight EXCEPT !.steps = <<>>,
                                         !.state = "aborted"]
                   ELSE inFlight

TimerFires ==
    /\ safetyCheckTimer # NoTimer
    /\ now >= safetyCheckTimer
    /\ TimerEffect(performSafetyCheck(Work))
    /\ safetyCheckTimer' = now + config.safetyCheckInterval * 1000
    /\ UNCHANGED <<config, now, isActive, emergencyStopCallback,
                   inputHistory, sessionHistory, stream, emitted>>
    /\ UNCHANGED <<session, keyConfig, listed, injected, thrown, calls>>
    /\ UNCHANGED statisticsVars
    /\ UNCHANGED pureVars
    /\ UNCHANGED crawlerVars
    /\ UNCHANGED detectorVars

\* the wall clock advances; a timer that is due runs before it advances
\* further
AdvanceTime(d) ==
    /\ now + d <= MaxElapsed
    /\ BetweenBursts
    /\ ~(safetyCheckTimer # NoTimer /\ now >= safetyCheckTimer)
    /\ now' = now + d
    /\ last' = Quiet
    /\ UNCHANGED <<config, isActive, safetyCheckTimer, emergencyStopCallback,
                   alerts, usageStats, inputHistory, sessionHistory, stream,
                   emitted, emergencyStops>>
    /\ UNCHANGED executorVars
    /\ UNCHANGED pureVars
    /\ UNCHANGED crawlerVars
    /\ UNCHANGED detectorVars

Next ==
    \/ \E callback \in Callbacks : StartMonitoring(callback)
    \/ StopMonitoring
    \/ RecordInputEvent
    \/ \E archived \in Sessions : RecordSession(archived)
    \/ TimerFires
    \/ \E d \in TimeSteps : AdvanceTime(d)

Spec == Init /\ [][Next]_vars


(***************************************************************************)
(* Vocabulary of the properties.                                           *)
(***************************************************************************)
\* the last step was a periodic check
Checked == last.op = "performSafetyCheck"

\* the last step recorded an event on an Active monitor
Recorded == last.op = "recordInputEvent"

Elapsed == now - usageStats.sessionStartTime

CallbackRegistered == emergencyStopCallback # "undefined"

\* the periodic check's callback invocation raised: the rules after the one
\* that invoked it did not run
CallbackRaised == last.cb # <<>> /\ emergencyStopCallback = "throws"

IsExcessiveUsage(a) == a.type = "excessive_usage"
IsCriticalExcessiveUsage(a) == a.type = "excessive_usage" /\ a.level = "critical"
IsUnnaturalTiming(a) == a.type = "unnatural_timing"
IsShortInterval(a) ==
    a.type = "suspicious_behavior" /\ a.level = "info"
IsRepetitivePattern(a) == a.type = "repetitive_pattern"
IsRestAlert(a) == a.message = "rest_required"
IsLowNaturalness(a) ==
    a.type = "suspicious_behavior" /\ a.level = "critical"

\* 12 consecutive mouse_click events 10 ms apart, all of them recorded
TwelveClicks ==
    /\ Len(inputHistory) = 12
    /\ \A i \in 1..12 : inputHistory[i].type = "mouse_click"
    /\ \A i \in 2..12 :
           inputHistory[i].timestamp - inputHistory[i - 1].timestamp = 10

(***************************************************************************)
(* C1: with maxSessionDuration = 1 minute, emergency stop enabled and a    *)
(* callback registered, a periodic check run after 61 elapsed seconds      *)
(* creates exactly one Critical excessive-usage alert and invokes the      *)
(* emergency callback exactly once.                                        *)
(***************************************************************************)
C1_OneAlertOneCallback ==
    (/\ Checked
     /\ config.maxSessionDuration = 1000
     /\ config.enableEmergencyStop
     /\ CallbackRegistered
     /\ Elapsed = 61000)
    => /\ Len(SelectSeq(last.created, IsCriticalExcessiveUsage)) = 1
       /\ Len(SelectSeq(last.created, IsExcessiveUsage)) = 1
       /\ Len(last.cb) = 1

(***************************************************************************)
(* C2: every invocation of the emergency callback happens inside the       *)
(* creation of an alert.                                                   *)
(***************************************************************************)
C2_CallbackOnlyInCreateAlert ==
    \A i \in 1..Len(last.cb) : last.cb[i].site = "createAlert"

(***************************************************************************)
(* C3: recording an event on an Active monitor creates exactly one         *)
(* Warning unnatural-timing alert when the event's confidence is below     *)
(* minHumanLikenessScore and none of that type otherwise.                  *)
(***************************************************************************)
C3_UnnaturalTimingAlert ==
    Recorded =>
        /\ Len(SelectSeq(last.created, IsUnnaturalTiming))
               = (IF last.event.confidence < config.minHumanLikenessScore
                  THEN 1 ELSE 0)
        /\ \A i \in 1..Len(last.created) :
               IsUnnaturalTiming(last.created[i])
                   => last.created[i].level = "warning"

C3_Witness ==
    /\ Recorded
    /\ last.event.confidence = 500
    /\ config.minHumanLikenessScore = 900
    /\ Len(SelectSeq(last.created, IsUnnaturalTiming)) = 1

(***************************************************************************)
(* C4 as stated: 12 consecutive mouse_click events 10 ms apart yield at    *)
(* least 12 Info suspicious-interval alerts.                               *)
(***************************************************************************)
C4_AtLeastTwelve ==
    TwelveClicks => Len(SelectSeq(usageStats.alertHistory, IsShortInterval)) >= 12

\* the events of the input history that follow their predecessor by less
\* than 50 ms
ShortlySpaced ==
    {i \in 2..Len(inputHistory) :
        inputHistory[i].timestamp - inputHistory[i - 1].timestamp < 50}

(***************************************************************************)
(* C4 as amended: every recorded event that follows the previously         *)
(* recorded event by less than 50 ms yields one Info alert, and the first  *)
(* recorded event, which has no predecessor, yields none: 12 mouse_click   *)
(* events 10 ms apart yield exactly 11.                                    *)
(***************************************************************************)
C4_OnePerShortInterval ==
    /\ Len(SelectSeq(usageStats.alertHistory, IsShortInterval))
           = Cardinality(ShortlySpaced)
    /\ TwelveClicks => Len(SelectSeq(usageStats.alertHistory, IsShortInterval)) = 11
    /\ Recorded =>
           Len(SelectSeq(last.created, IsShortInterval))
               = (IF Len(inputHistory) \in ShortlySpaced THEN 1 ELSE 0)

C4_Witness ==
    /\ TwelveClicks
    /\ Recorded
    /\ Len(SelectSeq(last.created, IsShortInterval)) = 1
    /\ Len(SelectSeq(usageStats.alertHistory, IsShortInterval)) = 11


\* the session-duration rule's callback invocation raised, so the rules
\* after it did not run
SessionRuleRaised ==
    CallbackRaised /\ last.created[1].message = "session_over_limit"

\* the smallest block length in 2..10 that the types of the analysed window
\* repeat exactly, 0 when there is none or fewer than 10 events are held
WindowTypes ==
    LET window == LastN(inputHistory, 50)
    IN  [i \in 1..Len(window) |-> window[i].type]

WindowPeriod ==
    LET s == WindowTypes
        periods == {l \in 2..10 :
                       /\ 2 * l <= Len(s)
                       /\ Len(s) % l = 0
                       /\ \A i \in 1..Len(s) : s[i] = s[((i - 1) % l) + 1]}
    IN  IF Len(inputHistory) < 10 \/ periods = {} THEN 0
        ELSE CHOOSE l \in periods : \A k \in periods : l <= k

(***************************************************************************)
(* C5 as stated: after 12 consecutive mouse_click events, the next         *)
(* periodic check creates exactly one Warning repetitive-pattern alert.    *)
(***************************************************************************)
C5_OneRepetitiveAlert ==
    (Checked /\ TwelveClicks)
        => Len(SelectSeq(last.created, IsRepetitivePattern)) = 1

(***************************************************************************)
(* C5 as amended: after 12 consecutive mouse_click events the next         *)
(* periodic check creates no repetitive-pattern alert, because the window  *)
(* repeats with block length 2; a periodic check creates one Warning       *)
(* repetitive-pattern alert exactly when the smallest repeating block      *)
(* length of the window is above 2 and above maxRepetitivePatternLength.   *)
(***************************************************************************)
C5_RepetitiveAlertOnlyAboveMax ==
    /\ (Checked /\ TwelveClicks)
           => Len(SelectSeq(last.created, IsRepetitivePattern)) = 0
    /\ (Checked /\ ~SessionRuleRaised)
           => /\ Len(SelectSeq(last.created, IsRepetitivePattern))
                     = (IF /\ WindowPeriod > 2
                           /\ WindowPeriod > config.maxRepetitivePatternLength
                        THEN 1 ELSE 0)
              /\ \A i \in 1..Len(last.created) :
                     IsRepetitivePattern(last.created[i])
                         => last.created[i].level = "warning"

C5_Witness ==
    /\ Checked
    /\ TwelveClicks
    /\ ~SessionRuleRaised
    /\ WindowPeriod = 2
    /\ Len(SelectSeq(last.created, IsRepetitivePattern)) = 0

(***************************************************************************)
(* C6: on each periodic check the session-duration rule creates exactly    *)
(* one excessive-usage alert when the elapsed session time is at least 80% *)
(* of maxSessionDuration (Critical at or above the maximum, Warning below  *)
(* it) and none when it is below 80%.                                      *)
(***************************************************************************)
C6_SessionDurationRule ==
    Checked =>
        LET maxMs == config.maxSessionDuration * 60
            made == SelectSeq(last.created, IsExcessiveUsage)
        IN  IF Elapsed >= maxMs
            THEN Len(made) = 1 /\ made[1].level = "critical"
            ELSE IF 10 * Elapsed >= 8 * maxMs
            THEN Len(made) = 1 /\ made[1].level = "warning"
            ELSE Len(made) = 0

C6_Witness ==
    /\ Checked
    /\ 10 * Elapsed = 8 * config.maxSessionDuration * 60
    /\ Len(SelectSeq(last.created, IsExcessiveUsage)) = 1

(***************************************************************************)
(* C7: a periodic check that finds the time since the last rest (since the *)
(* session start when no rest was registered) to be at least               *)
(* requiredRestInterval creates one Warning alert, increments restPeriods  *)
(* and sets the last-rest time to now; a check that finds less than the    *)
(* interval elapsed raises no rest alert and registers nothing.            *)
(***************************************************************************)
C7_RestRule ==
    (Checked /\ ~SessionRuleRaised) =>
        LET since == now - (IF last.before.lastRestTime # NoTime
                            THEN last.before.lastRestTime
                            ELSE usageStats.sessionStartTime)
            made == SelectSeq(last.created, IsRestAlert)
        IN  IF since >= config.requiredRestInterval * 60
            THEN /\ Len(made) = 1
                 /\ made[1].level = "warning"
                 /\ usageStats.restPeriods = last.before.restPeriods + 1
                 /\ usageStats.lastRestTime = now
            ELSE /\ Len(made) = 0
                 /\ usageStats.restPeriods = last.before.restPeriods
                 /\ usageStats.lastRestTime = last.before.lastRestTime

\* a check that follows a registered rest by less than the interval
C7_Witness ==
    /\ Checked
    /\ ~SessionRuleRaised
    /\ last.before.lastRestTime # NoTime
    /\ last.before.restPeriods = 1
    /\ now - last.before.lastRestTime < config.requiredRestInterval * 60
    /\ Len(SelectSeq(last.created, IsRestAlert)) = 0

(***************************************************************************)
(* C8: a periodic check that computes naturalness below 0.5 creates one    *)
(* Critical alert and, with emergency stop enabled and a callback          *)
(* registered, invokes the callback once for that alert; naturalness in    *)
(* [0.5, 0.7) creates no alert in the periodic check but is an issue of    *)
(* performManualSafetyCheck.                                               *)
(***************************************************************************)
C8_NaturalnessRule ==
    LET naturalness == analyzeBehaviorPatterns.naturalness
        forThatAlert(c) == c.alert = "low_naturalness"
    IN  (Checked /\ ~SessionRuleRaised) =>
            IF naturalness < 500
            THEN /\ Len(SelectSeq(last.created, IsLowNaturalness)) = 1
                 /\ Len(SelectSeq(last.cb, forThatAlert))
                        = (IF /\ config.enableEmergencyStop
                              /\ CallbackRegistered
                           THEN 1 ELSE 0)
            ELSE /\ Len(SelectSeq(last.created, IsLowNaturalness)) = 0
                 /\ Len(SelectSeq(last.cb, forThatAlert)) = 0
                 /\ naturalness < 700
                        => \E i \in performManualSafetyCheck.issues :
                               i.type = "unnatural_behavior"

C8_Witness ==
    /\ Checked
    /\ ~SessionRuleRaised
    /\ Len(inputHistory) >= 10
    /\ analyzeBehaviorPatterns.naturalness < 500
    /\ config.enableEmergencyStop
    /\ emergencyStopCallback = "returns"
    /\ Len(SelectSeq(last.created, IsLowNaturalness)) = 1

(***************************************************************************)
(* C9: when a rule raises during a periodic check, the exception is        *)
(* caught, a System-Anomaly alert is created, and the monitor stays Active *)
(* with its timer armed for the next check.                                *)
(***************************************************************************)
C9_RuleExceptionCaught ==
    (Checked /\ CallbackRaised) =>
        /\ last.created[Len(last.created)].type = "system_anomaly"
        /\ last.created[Len(last.created)].message = "check_exception"
        /\ alerts[Len(alerts)] = last.created[Len(last.created)]
        /\ isActive
        /\ safetyCheckTimer # NoTimer
        /\ safetyCheckTimer > now

C9_Witness ==
    /\ Checked
    /\ CallbackRaised
    /\ isActive
    /\ alerts[Len(alerts)].type = "system_anomaly"

(***************************************************************************)
(* C10: the score returned by getSafetyStatus lies in [0,100] and the      *)
(* level is 'safe' exactly when score >= 80, 'warning' exactly when        *)
(* 60 <= score < 80 and 'danger' otherwise.                                *)
(***************************************************************************)
C10_ScoreInRangeWithLevel ==
    LET status == getSafetyStatus
    IN  /\ status.score \in 0..100000
        /\ status.level = "safe" <=> status.score >= 80000
        /\ status.level = "warning"
               <=> (status.score >= 60000 /\ status.score < 80000)
        /\ status.level = "danger" <=> status.score < 60000

(***************************************************************************)
(* C11. performManualSafetyCheck evaluates the same five rules as the      *)
(* periodic check: in every state, each rule (session duration, rest       *)
(* requirement, pattern analysis, fatigue, system health) that would       *)
(* create an alert in a periodic check run now is reported as an issue by  *)
(* the manual check run now.                                               *)
(***************************************************************************)
\* the rule that creates an alert of the periodic check
RuleOfAlert(a) ==
    CASE a.message \in {"session_over_limit", "session_near_limit"}
            -> "session_duration"
      [] a.message = "rest_required" -> "rest_requirement"
      [] a.message \in {"repetitive_pattern", "low_naturalness"}
            -> "pattern_analysis"
      [] a.message = "high_fatigue" -> "fatigue"
      [] OTHER -> "system_health"

\* the rule an issue of the manual check reports on
RuleOfIssue(i) ==
    CASE i.type = "excessive_duration" -> "session_duration"
      [] i.type \in {"repetitive_behavior", "unnatural_behavior"}
            -> "pattern_analysis"
      [] i.type = "fatigue_detected" -> "fatigue"
      [] OTHER -> "operation_count"

C11_ManualReportsPeriodicAlerts ==
    LET periodic == performSafetyCheck(Work).created
        manual == performManualSafetyCheck
    IN  /\ \A k \in 1..Len(periodic) :
              \E i \in manual.issues :
                  RuleOfIssue(i) = RuleOfAlert(periodic[k])
        /\ manual.isSafe \in BOOLEAN

(***************************************************************************)
(* C12. stopMonitoring only disarms future periodic checks: a step that    *)
(* leaves the monitor Stopped (the stop itself and every step until the    *)
(* next startMonitoring) is not a periodic check, leaves the timer         *)
(* disarmed, and leaves every alert raised before it, Critical ones        *)
(* included, unchanged in the alert list and the alert history.            *)
(***************************************************************************)
C12_StopOnlyDisarms ==
    [][~isActive' =>
          /\ last'.op # "performSafetyCheck"
          /\ safetyCheckTimer' = NoTimer
          /\ alerts' = alerts
          /\ usageStats'.alertHistory = usageStats.alertHistory]_vars

\* the monitor was stopped after a Critical alert, and a whole check interval
\* has passed since without a check
C12_Witness ==
    /\ ~isActive
    /\ last.op = "none"
    /\ \E k \in 1..Len(alerts) :
          /\ alerts[k].level = "critical"
          /\ now - alerts[k].timestamp >= config.safetyCheckInterval * 1000
    /\ \A k \in 1..Len(alerts) : alerts[k].timestamp < now

(***************************************************************************)
(* A long run: the monitor after startMonitoring() and a long burst of     *)
(* events, each of low confidence and 10 ms after the previous one, so     *)
(* that every event but the first creates two alerts.  The run starts      *)
(* from the state the handlers produce for the first events of the burst   *)
(* and goes on with the following events.                                  *)
(***************************************************************************)
\* events recorded one by one after the replayed part of the burst
LongRunEvents == 4

\* replayed part of the burst: close to AlertTrim events, that is close to
\* AlertLimit alerts
ReplayLengths == (AlertTrim - 20)..AlertTrim

\* the burst: clicks of confidence 0.5, 10 ms apart
LongStream(n) ==
    [i \in 1..n |->
        [type |-> click, confidence |-> 500, timestamp |-> 10 * i]]

\* the working record of a monitor as its constructor leaves it
Constructed ==
    [alerts |-> <<>>,
     stats |-> [sessionStartTime |-> 0,
                operationCount |-> 0,
                restPeriods |-> 0,
                lastRestTime |-> NoTime,
                operationIntervals |-> <<>>,
                alertHistory |-> <<>>,
                lastSafetyCheck |-> 0],
     created |-> <<>>, cb |-> <<>>, exc |-> FALSE]

\* the working record and input history after recordInputEvent of the
\* events lo..hi of a stream, in order, from the record and history p
RECURSIVE Replay(_, _, _, _)
Replay(p, events, lo, hi) ==
    IF lo > hi
    THEN p
    ELSE IF lo = hi
    THEN recordInputEvent([p.w EXCEPT !.created = <<>>, !.cb = <<>>],
                          p.history, events[lo])
    ELSE LET mid == (lo + hi) \div 2
             first == Replay(p, events, lo, mid)
         IN  IF first.w.exc THEN first
             ELSE Replay(first, events, mid + 1, hi)

LongRunInit ==
    /\ config \in Configs
    /\ now = 0
    /\ isActive = TRUE
    /\ safetyCheckTimer = now + config.safetyCheckInterval * 1000
    /\ emergencyStopCallback = "undefined"
    /\ sessionHistory = <<>>
    /\ emergencyStops = 0
    /\ last = Quiet
    /\ keyConfig = [key |-> "a", modifiers |-> <<>>]   \* no keyboard use here
    /\ ExecutorConstructed
    /\ RandomizerConstructed
    /\ CrawlerIdle
    /\ DetectorIdle
    /\ \E n \in ReplayLengths :
          LET events == LongStream(n + LongRunEvents)
              replayed == Replay([w |-> Constructed, history |-> <<>>],
                                  events, 1, n)
          IN  /\ stream = events
              /\ emitted = n
              /\ alerts = replayed.w.alerts
              /\ usageStats = replayed.w.stats
              /\ inputHistory = replayed.history

LongRunNext ==
    \/ RecordInputEvent
    \/ StopMonitoring
    \/ \E callback \in Callbacks : StartMonitoring(callback)

LongRunSpec == LongRunInit /\ [][LongRunNext]_vars

(***************************************************************************)
(* C13. Every event history and alert history kept by SafetyMonitor is a   *)
(* bounded FIFO: after any sequence of recordInputEvent calls and periodic *)
(* checks, none of the input history, the alert list, and the alert and    *)
(* interval histories of the usage statistics exceeds its cap.             *)
(***************************************************************************)
C13_HistoriesBounded ==
    /\ Len(inputHistory) <= InputHistoryLimit
    /\ Len(alerts) <= AlertLimit
    /\ Len(usageStats.alertHistory) <= AlertLimit
    /\ Len(usageStats.operationIntervals) <= InputHistoryLimit

(***************************************************************************)
(* HumanInputSimulator: the executor of input operations.                  *)
(*                                                                         *)
(* An operation is an async function: it runs up to its next sleep, where  *)
(* it is suspended.  Its injection-port calls are listed when it is called *)
(* and made one by one; each step below is one port call, which may fail   *)
(* (throw), together with the statements up to the next port call.  A call *)
(* carries                                                                 *)
(*   catches    the error codes of the catch blocks that enclose it,       *)
(*              innermost first: each of them increments errorCount and    *)
(*              rethrows a GameAgentError with its code                    *)
(*   completes  the number of session.operationCount++ statements that     *)
(*              run after it succeeds and before the next port call        *)
(*   reverses   config.modifiers.reverse() runs after it succeeds          *)
(***************************************************************************)
\* operations the caller makes in one run
MaxCalls == 2

\* robot.moveMouse calls of one simulateMouseMove (path.length - 1)
PathSteps == 2

\* opens: the call is the first one of a simulateMouseMove, which records
\* its start event on entry
PortCall(port, arg, dir, catches) ==
    [port |-> port, arg |-> arg, dir |-> dir, catches |-> catches,
     completes |-> 0, reverses |-> FALSE, opens |-> FALSE]

\* the last port call of a function is followed by its operationCount++
Completing(portCalls) ==
    [i \in 1..Len(portCalls) |->
        IF i = Len(portCalls) THEN [portCalls[i] EXCEPT !.completes = 1]
        ELSE portCalls[i]]

Reverse(s) == [i \in 1..Len(s) |-> s[Len(s) + 1 - i]]

RECURSIVE Flatten(_)
Flatten(ss) == IF ss = <<>> THEN <<>> ELSE Head(ss) \o Flatten(Tail(ss))

\* outer: the catch blocks of the caller that enclose the call of this
\* function
simulateMouseMove(targetPoint, outer) ==
    Completing([i \in 1..PathSteps |->
        [PortCall("moveMouse", targetPoint,
                  IF i = PathSteps THEN "arrive" ELSE "along",
                  <<"MOUSE_MOVE_ERROR">> \o outer)
            EXCEPT !.opens = (i = 1)]])

executeClick(catches) ==
    <<PortCall("mouseToggle", "left", "down", catches),
      PortCall("mouseToggle", "left", "up", catches)>>

\* the move to the position is made before the try block is entered
simulateMouseClick(position, doubleClick) ==
    (IF position # "none" THEN simulateMouseMove(position, <<>>) ELSE <<>>)
    \o Completing(
        executeClick(<<"MOUSE_CLICK_ERROR">>)
        \o (IF doubleClick THEN executeClick(<<"MOUSE_CLICK_ERROR">>)
            ELSE <<>>))

\* modifiers: config.modifiers when the function is called
simulateKeyPress(mainKey, modifiers) ==
    LET catches == <<"KEY_PRESS_ERROR">>
        downs == [i \in 1..Len(modifiers) |->
                     PortCall("keyToggle", modifiers[i], "down", catches)]
        keyDown == PortCall("keyToggle", mainKey, "down", catches)
        keyUp == [PortCall("keyToggle", mainKey, "up", catches)
                     EXCEPT !.reverses = TRUE]
        released == Reverse(modifiers)
        ups == [i \in 1..Len(released) |->
                   PortCall("keyToggle", released[i], "up", catches)]
    IN  Completing(downs \o <<keyDown, keyUp>> \o ups)

\* simulateDragDrop that releases the button before the last move
simulateDragDrop_ReleaseEarly(startPoint, endPoint, intermediatePoints) ==
    LET catches == <<"DRAG_DROP_ERROR">>
        allPoints == <<startPoint>> \o intermediatePoints
    IN  Completing(
            simulateMouseMove(startPoint, catches)
            \o <<PortCall("mouseToggle", "left", "down", catches)>>
            \o Flatten([i \in 1..(Len(allPoints) - 1) |->
                            simulateMouseMove(allPoints[i + 1], catches)])
            \o <<PortCall("mouseToggle", "left", "up", catches)>>
            \o simulateMouseMove(endPoint, catches))

simulateDragDrop(startPoint, endPoint, intermediatePoints) ==
    LET catches == <<"DRAG_DROP_ERROR">>
        allPoints == <<startPoint>> \o intermediatePoints \o <<endPoint>>
        through ==
            IF Len(intermediatePoints) > 0
            THEN Flatten([i \in 1..(Len(allPoints) - 1) |->
                             simulateMouseMove(allPoints[i + 1], catches)])
            ELSE simulateMouseMove(endPoint, catches)
    IN  Completing(
            simulateMouseMove(startPoint, catches)
            \o <<PortCall("mouseToggle", "left", "down", catches)>>
            \o through
            \o <<PortCall("mouseToggle", "left", "up", catches)>>)

\* the caller calls an operation and awaits it before calling the next;
\* before: the session counters when it is called
Call(op, args, steps) ==
    /\ inFlight.state # "running"
    /\ calls < MaxCalls
    /\ calls' = calls + 1
    /\ inFlight' = [op |-> op, args |-> args, steps |-> steps,
                    state |-> "running", startTime |-> now,
                    before |-> session]
    /\ injected' = <<>>
    /\ thrown' = NoError
    /\ returned' = <<>>
    /\ UNCHANGED <<session, keyConfig, listed, eventHistory, statistics>>
    /\ UNCHANGED pureVars
    /\ UNCHANGED crawlerVars
    /\ UNCHANGED detectorVars

Move ==
    /\ Call("move", <<"target">>, simulateMouseMove("target", <<>>))
    /\ UNCHANGED monitorVars

Click(position, doubleClick) ==
    /\ Call("click", <<position, doubleClick>>,
            simulateMouseClick(position, doubleClick))
    /\ UNCHANGED monitorVars

KeyPress ==
    /\ Call("keyPress", keyConfig.modifiers,
            simulateKeyPress(keyConfig.key, keyConfig.modifiers))
    /\ UNCHANGED monitorVars

IntermediatePoints == {<<>>, <<"p1">>, <<"p1", "p2">>}

DragDrop(intermediatePoints) ==
    /\ Call("dragDrop", intermediatePoints,
            simulateDragDrop("start", "end", intermediatePoints))
    /\ UNCHANGED monitorVars

\* the expected durations calculateMouseMoveDelay gives a move (ms)
MoveDurations == {100, 800}

EventTypeOf(code) ==
    CASE code = "MOUSE_MOVE_ERROR" -> "mouse_move"
      [] code = "MOUSE_CLICK_ERROR" -> "mouse_click"
      [] code = "KEY_PRESS_ERROR" -> "key_press"
      [] code = "DRAG_DROP_ERROR" -> "mouse_drag"

\* per mille; expectedDuration 0 stands for an absent (or zero) one, and
\* humanAccuracyLevel is the constructor's 0.85
calculateHumanLikeness(operationType, actualDuration, expectedDuration) ==
    LET level == 850
        deviated == IF expectedDuration # 0
                    THEN level - (Abs(actualDuration - expectedDuration) * 500)
                                     \div expectedDuration
                    ELSE level
        multiplier == CASE operationType = "mouse_move" -> 1000
                        [] operationType = "mouse_click" -> 950
                        [] operationType = "key_press" -> 900
                        [] operationType = "mouse_drag" -> 850
                        [] OTHER -> 900
    IN  Max(0, Min(1000, Scale(deviated, multiplier)))

\* logged: the event history and the statistics, as a record
recordEvent(logged, event) ==
    LET pushed == Append(logged.eventHistory, event)
    IN  [eventHistory |-> IF Len(pushed) > 1000
                          THEN SubSeq(pushed, 501, Len(pushed))
                          ELSE pushed,
         statistics |-> [logged.statistics EXCEPT
                            !.totalEvents = @ + 1,
                            !.lastUpdate = now]]

\* the events one injection-port call makes its function record: the start
\* event of a move before its first call, the completion event of the
\* function after its last one; made: the calls made so far, this one
\* included
recordEvents(call, ok, made, moveDuration) ==
    LET operationType == EventTypeOf(call.catches[1])
        opened == {i \in 1..Len(made) : made[i].opens}
        startTime ==
            IF operationType = "mouse_move"
            THEN made[CHOOSE i \in opened : \A k \in opened : k <= i].at
            ELSE inFlight.startTime
        actualDuration == now - startTime
        logged == [eventHistory |-> eventHistory, statistics |-> statistics]
        started ==
            IF call.opens
            THEN recordEvent(logged,
                             [type |-> "mouse_move", timestamp |-> now,
                              duration |-> 0, confidence |-> 0])
            ELSE logged
    IN  IF ok /\ call.completes = 1
        THEN recordEvent(started,
                 [type |-> operationType, timestamp |-> now,
                  duration |-> actualDuration,
                  confidence |->
                      calculateHumanLikeness(operationType, actualDuration,
                          IF operationType = "mouse_move" THEN moveDuration
                          ELSE 0)])
        ELSE started

\* the operation in flight makes its next injection-port call, which
\* succeeds or throws
Inject(ok) ==
    /\ inFlight.state = "running"
    /\ LET call == Head(inFlight.steps)
           rest == Tail(inFlight.steps)
       IN  /\ injected' = Append(injected,
                                 [port |-> call.port, arg |-> call.arg,
                                  dir |-> call.dir, ok |-> ok,
                                  at |-> now, opens |-> call.opens])
           /\ \E moveDuration \in MoveDurations :
                  LET logged == recordEvents(call, ok, injected', moveDuration)
                  IN  /\ eventHistory' = logged.eventHistory
                      /\ statistics' = logged.statistics
           /\ returned' = <<>>
           /\ IF ok
              THEN /\ session' = [session EXCEPT
                                     !.operationCount = @ + call.completes]
                   /\ keyConfig' = IF call.reverses
                                   THEN [keyConfig EXCEPT
                                            !.modifiers = Reverse(@)]
                                   ELSE keyConfig
                   /\ inFlight' = [inFlight EXCEPT
                                      !.steps = rest,
                                      !.state = IF rest = <<>>
                                                THEN "returned"
                                                ELSE "running"]
                   /\ thrown' = NoError
              ELSE /\ session' = [session EXCEPT
                                     !.errorCount = @ + Len(call.catches)]
                   /\ keyConfig' = keyConfig
                   /\ inFlight' = [inFlight EXCEPT !.steps = <<>>,
                                                   !.state = "raised"]
                   /\ thrown' = call.catches[Len(call.catches)]
    /\ UNCHANGED <<listed, calls>>
    /\ UNCHANGED monitorVars
    /\ UNCHANGED pureVars
    /\ UNCHANGED crawlerVars
    /\ UNCHANGED detectorVars

ExecutorInit ==
    /\ config \in {c \in Configs : c.enableEmergencyStop}
    /\ now = 0
    /\ isActive = FALSE
    /\ safetyCheckTimer = NoTimer
    /\ emergencyStopCallback = "undefined"
    /\ alerts = Constructed.alerts
    /\ usageStats = Constructed.stats
    /\ inputHistory = <<>>
    /\ sessionHistory = <<>>
    /\ stream = <<>>
    /\ emitted = 0
    /\ emergencyStops = 0
    /\ last = Quiet
    /\ ExecutorConstructed
    /\ RandomizerConstructed
    /\ CrawlerIdle
    /\ DetectorIdle

ExecutorNext ==
    \/ Move
    \/ \E position \in {"none", "target"}, doubleClick \in BOOLEAN :
          Click(position, doubleClick)
    \/ KeyPress
    \/ \E intermediatePoints \in IntermediatePoints :
          DragDrop(intermediatePoints)
    \/ \E ok \in BOOLEAN : Inject(ok)

ExecutorSpec == ExecutorInit /\ [][ExecutorNext]_vars

(***************************************************************************)
(* Vocabulary of the executor's properties.                                *)
(***************************************************************************)
ErrorCodes == {"MOUSE_MOVE_ERROR", "MOUSE_CLICK_ERROR", "KEY_PRESS_ERROR",
               "DRAG_DROP_ERROR"}

Returned(op) == inFlight.op = op /\ inFlight.state = "returned"

Raised == inFlight.state = "raised"

\* the port calls made, without their outcome
Made == [i \in 1..Len(injected) |->
            [port |-> injected[i].port, arg |-> injected[i].arg,
             dir |-> injected[i].dir]]

IsArrivalOrToggle(c) == c.dir # "along"

KeyToggle(k, dir) == [port |-> "keyToggle", arg |-> k, dir |-> dir]

MouseToggle(dir) == [port |-> "mouseToggle", arg |-> "left", dir |-> dir]

Arrive(point) == [port |-> "moveMouse", arg |-> point, dir |-> "arrive"]

(***************************************************************************)
(* C14. In every reachable state of the executor's session,                *)
(* errorCount <= operationCount, for any sequence of successful and        *)
(* failing move, click, keyPress and dragDrop operations.                  *)
(***************************************************************************)
C14_ErrorsAtMostOperations == session.errorCount <= session.operationCount

(***************************************************************************)
(* C15. When an injection-port call fails during an operation, the         *)
(* operation increments session.errorCount (once: one failure, one         *)
(* error), raises a typed execution error to the caller, and makes no      *)
(* further injection call: the failed call is the last one it made.        *)
(***************************************************************************)
C15_FailureCountedAndRaised ==
    Raised =>
        /\ session.errorCount = inFlight.before.errorCount + 1
        /\ thrown \in ErrorCodes
        /\ inFlight.steps = <<>>
        /\ \A i \in 1..Len(injected) : injected[i].ok <=> i < Len(injected)

(***************************************************************************)
(* C16. In every keyPress call, repeated calls with the same config object *)
(* included, the injected sequence is: each modifier down in the order the *)
(* caller listed them, main key down, main key up, the modifiers up in the *)
(* reverse of that order.                                                  *)
(***************************************************************************)
C16_ModifiersInListedOrder ==
    Returned("keyPress") =>
        Made = [i \in 1..Len(listed) |-> KeyToggle(listed[i], "down")]
               \o <<KeyToggle(keyConfig.key, "down"),
                    KeyToggle(keyConfig.key, "up")>>
               \o [i \in 1..Len(listed) |->
                      KeyToggle(Reverse(listed)[i], "up")]

(***************************************************************************)
(* C17. A successful dragDrop injects, in this order: the pointer moves to *)
(* start, button-down, the pointer visits every intermediate point in the  *)
(* given order, the pointer moves to end, and only then button-up;         *)
(* button-down and button-up each occur exactly once.                      *)
(***************************************************************************)
C17_DragDropOrder ==
    Returned("dragDrop") =>
        LET points == inFlight.args \o <<"end">>
        IN  /\ SelectSeq(Made, IsArrivalOrToggle)
                  = <<Arrive("start"), MouseToggle("down")>>
                    \o [i \in 1..Len(points) |-> Arrive(points[i])]
                    \o <<MouseToggle("up")>>
            /\ \A i \in 1..Len(injected) :
                  /\ injected[i].ok
                  /\ injected[i].dir = "along" =>
                        \* a move towards a point ends by arriving at it
                        /\ i < Len(injected)
                        /\ injected[i + 1].port = "moveMouse"
                        /\ injected[i + 1].arg = injected[i].arg

\* a drag through two intermediate points has returned
C17_Witness ==
    /\ Returned("dragDrop")
    /\ inFlight.args = <<"p1", "p2">>
    /\ Len(SelectSeq(Made, IsArrivalOrToggle)) = 6

(***************************************************************************)
(* The executor and the monitor's timer in one process: while an           *)
(* operation is suspended at a sleep, time passes and the interval timer   *)
(* of the monitor may run a periodic check.  The emergency callback given  *)
(* to startMonitoring throws, so that the session rule of the check        *)
(* raises once the session has lasted its maximum.                         *)
(***************************************************************************)
InFlightNext ==
    \/ StartMonitoring("throws")
    \/ \E d \in {61000} : AdvanceTime(d)
    \/ TimerFires
    \/ Move
    \/ DragDrop(<<"p1">>)
    \/ \E ok \in BOOLEAN : Inject(ok)

InFlightSpec == ExecutorInit /\ [][InFlightNext]_vars

\* the injection-port calls of the operation in flight, from its call
Script ==
    CASE inFlight.op = "move" -> simulateMouseMove("target", <<>>)
      [] inFlight.op = "dragDrop"
            -> simulateDragDrop("start", "end", inFlight.args)
      [] OTHER -> <<>>

PortCallsOf(steps) ==
    [i \in 1..Len(steps) |->
        [port |-> steps[i].port, arg |-> steps[i].arg, dir |-> steps[i].dir]]

\* a periodic check ran between two injection-port calls of the operation,
\* and a rule of it raised
CheckRaisedInFlight ==
    /\ last.op = "performSafetyCheck"
    /\ CallbackRaised
    /\ \E k \in 1..Len(last.created), i \in 1..(Len(injected) - 1) :
          /\ last.created[k].type = "system_anomaly"
          /\ injected[i].at < last.created[k].timestamp
          /\ last.created[k].timestamp <= injected[i + 1].at

(***************************************************************************)
(* C18. A periodic safety check that fires while an input operation is in  *)
(* flight never stalls or aborts that operation, even when a rule of the   *)
(* check raises: the operation is never aborted, and while it is in flight *)
(* the calls it has made followed by the calls it still has to make are    *)
(* its injection steps in order.                                           *)
(***************************************************************************)
C18_CheckNeverAbortsOperation ==
    /\ inFlight.state # "aborted"
    /\ inFlight.state = "running" =>
          /\ inFlight.steps # <<>>
          /\ Made \o PortCallsOf(inFlight.steps) = PortCallsOf(Script)
    /\ inFlight.state = "returned" => Made = PortCallsOf(Script)

\* a drag made its first calls, a check whose rule raised ran while it was
\* suspended, and the drag went on to its last call and returned
C18_Witness ==
    /\ Returned("dragDrop")
    /\ CheckRaisedInFlight
    /\ Made[Len(Made)] = MouseToggle("up")
    /\ injected[Len(injected)].ok

(***************************************************************************)
(* BehaviorRandomizer.randomizeDelay.                                      *)
(*                                                                         *)
(* Delays are in hundredths of a millisecond, fractions and the outputs of *)
(* the random generator per mille; the standard normal deviate of          *)
(* gaussianRandom is in thousandths and lies within about 8.57 of zero,    *)
(* the largest value Box-Muller gives for a double in (0, 1).              *)
(***************************************************************************)
\* calls of randomizeDelay in one run
MaxDelays == 4

\* 1 ms and 50 ms
BaseDelays == {100, 5000}

Strategies == {"subtle", "moderate", "natural", "chaotic"}

\* what one call draws from the random generator: this.random() of the
\* rhythm, attention and fatigue offsets, and the deviate of the strategic one
Draws == {[rhythm |-> 0, attention |-> 0, fatigue |-> 0, z |-> -8570],
          [rhythm |-> 500, attention |-> 500, fatigue |-> 500, z |-> 0],
          [rhythm |-> 999, attention |-> 0, fatigue |-> 999, z |-> 1000],
          [rhythm |-> 999, attention |-> 999, fatigue |-> 999, z |-> 8570]}

calculateVariance(values) ==
    IF Len(values) = 0 THEN 0
    ELSE LET mean == SumSeq(values) \div Len(values)
         IN  SumSeq([i \in 1..Len(values) |->
                        (values[i] - mean) * (values[i] - mean)])
                 \div Len(values)

applyRhythmicVariation(baseDelay, draw) ==
    IF behaviorConfig.rhythmicVariation = 0 THEN 0
    ELSE LET recentDelays == LastN(operationHistory, 10)
             swing == Scale(Scale(baseDelay,
                                  behaviorConfig.rhythmicVariation),
                            draw.rhythm - 500)
         IN  IF Len(recentDelays) >= 3
             THEN LET avgDelay == SumSeq(recentDelays) \div Len(recentDelays)
                      variance == calculateVariance(recentDelays)
                  \* variance in ms^2 against 0.3 times the average in ms
                  IN  IF variance < avgDelay * 30
                      THEN swing \div 2
                      ELSE 0
             ELSE swing

applyAttentionImpact(baseDelay, draw) ==
    LET attentionImpact == Scale(1000 - attentionState.level,
                                 behaviorConfig.attentionDrift)
    IN  (Scale(Scale(baseDelay, attentionImpact), draw.attention - 500) * 4)
            \div 10

applyFatigueImpact(baseDelay, draw) ==
    LET fatigueFactor == Scale(session.fatigueLevel,
                               behaviorConfig.fatigueProgression)
    IN  Scale(Scale(baseDelay, fatigueFactor), 500 + draw.fatigue \div 2)

applyStrategicRandomization(baseDelay, draw) ==
    LET stdDev == CASE behaviorConfig.strategy = "subtle"
                          -> Scale(baseDelay, 50)
                    [] behaviorConfig.strategy = "moderate"
                          -> Scale(baseDelay, 150)
                    [] behaviorConfig.strategy = "natural"
                          -> Scale(baseDelay, 250)
                    [] behaviorConfig.strategy = "chaotic"
                          -> Scale(baseDelay, 400)
    IN  Scale(stdDev, draw.z)

\* randomizeDelay without the final clamp
randomizeDelay_Unclamped(baseDelay, draw) ==
    baseDelay + applyRhythmicVariation(baseDelay, draw)
              + applyAttentionImpact(baseDelay, draw)
              + applyFatigueImpact(baseDelay, draw)
              + applyStrategicRandomization(baseDelay, draw)

randomizeDelay(baseDelay, draw) ==
    LET adjustedDelay == baseDelay
                         + applyRhythmicVariation(baseDelay, draw)
                         + applyAttentionImpact(baseDelay, draw)
                         + applyFatigueImpact(baseDelay, draw)
                         + applyStrategicRandomization(baseDelay, draw)
        minDelay == (baseDelay * 3) \div 10
        maxDelay == baseDelay * 3
    IN  Max(minDelay, Min(maxDelay, adjustedDelay))

\* the IBehaviorVariation a contributor builds for its offset: offset
\* stands for its originalAction and modifiedAction texts, which quote
\* baseDelay and baseDelay + offset; severity is
\* Math.abs(offset / baseDelay), per mille
Variation(type, description, baseDelay, offset) ==
    [type |-> type, description |-> description, offset |-> offset,
     severity |-> (Abs(offset) * 1000) \div baseDelay]

\* what the four contributors of one randomizeDelay call push on
\* this.variations, in order: applyRhythmicVariation returns before its
\* push when the configured amount is 0, the other three always push
pushedVariations(baseDelay, draw) ==
    (IF behaviorConfig.rhythmicVariation = 0 THEN <<>>
     ELSE <<Variation("timing_offset", "rhythmic", baseDelay,
                      applyRhythmicVariation(baseDelay, draw))>>)
    \o <<Variation("extra_pause", "attention", baseDelay,
                   applyAttentionImpact(baseDelay, draw)),
         Variation("extra_pause", "fatigue", baseDelay,
                   applyFatigueImpact(baseDelay, draw)),
         Variation("timing_offset", "strategic", baseDelay,
                   applyStrategicRandomization(baseDelay, draw))>>

\* randomizeDelay puts in the list it returns the variations of the
\* contributors whose offset is not 0
returnedVariations(baseDelay, draw) ==
    SelectSeq(pushedVariations(baseDelay, draw), LAMBDA v : v.offset # 0)

RandomizeDelay(baseDelay, draw) ==
    /\ LET delay == randomizeDelay(baseDelay, draw)
       IN  /\ randomized' = [baseDelay |-> baseDelay, delay |-> delay,
                             variations |->
                                 returnedVariations(baseDelay, draw)]
           /\ operationHistory' =
                  LET pushed == Append(operationHistory, delay)
                  IN  IF Len(pushed) > OperationHistoryLimit
                      THEN SubSeq(pushed, OperationHistoryTrim + 1,
                                  Len(pushed))
                      ELSE pushed
    /\ variations' = variations \o pushedVariations(baseDelay, draw)
    /\ UNCHANGED <<behaviorConfig, attentionState, pathConfig, path>>
    /\ UNCHANGED crawlerVars
    /\ UNCHANGED detectorVars
    /\ UNCHANGED monitorVars
    /\ UNCHANGED executorVars

\* the constructor's defaults and the extremes of the variation amounts,
\* for every strategy; the attention level and the session's fatigue level
\* are what the rest of the run has made them
DelayInit ==
    /\ config \in {c \in Configs : c.enableEmergencyStop}
    /\ now = 0
    /\ isActive = FALSE
    /\ safetyCheckTimer = NoTimer
    /\ emergencyStopCallback = "undefined"
    /\ alerts = Constructed.alerts
    /\ usageStats = Constructed.stats
    /\ inputHistory = <<>>
    /\ sessionHistory = <<>>
    /\ stream = <<>>
    /\ emitted = 0
    /\ emergencyStops = 0
    /\ last = Quiet
    /\ session \in {[operationCount |-> 0, errorCount |-> 0,
                     fatigueLevel |-> f] : f \in {0, 1000}}
    /\ keyConfig = [key |-> "a", modifiers |-> <<>>]
    /\ listed = <<>>
    /\ inFlight = Idle
    /\ injected = <<>>
    /\ thrown = NoError
    /\ calls = 0
    /\ eventHistory = <<>>
    /\ statistics = [totalEvents |-> 0, averageReactionTime |-> 0,
                     mousePathAccuracy |-> 0, errorRate |-> 0,
                     fatigueScore |-> 0, humanLikenessScore |-> 0,
                     lastUpdate |-> 0]
    /\ returned = <<>>
    /\ behaviorConfig \in
          {[strategy |-> s, rhythmicVariation |-> v.rhythmicVariation,
            attentionDrift |-> v.attentionDrift,
            fatigueProgression |-> v.fatigueProgression] :
              s \in Strategies,
              v \in {[rhythmicVariation |-> 300, attentionDrift |-> 200,
                      fatigueProgression |-> 100],
                     [rhythmicVariation |-> 0, attentionDrift |-> 0,
                      fatigueProgression |-> 0],
                     [rhythmicVariation |-> 1000, attentionDrift |-> 1000,
                      fatigueProgression |-> 1000]}}
    /\ attentionState \in {[level |-> l, focusPoint |-> NoFocusPoint, lastFocusChange |-> 0,
                             driftVector |-> [x |-> 0, y |-> 0]] :
                               l \in {100, 800}}
    /\ operationHistory = <<>>
    /\ randomized = NoDelay
    /\ pathConfig = [startPoint |-> [x |-> 0, y |-> 0],
                     endPoint |-> [x |-> 0, y |-> 0],
                     curvature |-> 300, speed |-> 300, deviation |-> 5,
                     noise |-> 0]
    /\ path = NoPath
    /\ variations = <<>>
    /\ CrawlerIdle
    /\ DetectorIdle

DelayNext ==
    /\ Len(operationHistory) < MaxDelays
    /\ \E baseDelay \in BaseDelays, draw \in Draws :
           RandomizeDelay(baseDelay, draw)

DelaySpec == DelayInit /\ [][DelayNext]_vars

(***************************************************************************)
(* C19. For every base delay > 0 and every strategy, the delay returned by *)
(* randomizeDelay lies within [0.3 * base, 3.0 * base], whatever the       *)
(* rhythmic, attention, fatigue and strategic offsets are.                 *)
(***************************************************************************)
C19_DelayWithinBounds ==
    randomized # NoDelay =>
        /\ randomized.delay * 10 >= randomized.baseDelay * 3
        /\ randomized.delay <= randomized.baseDelay * 3

\* after three calls, both clamps have been applied and a call has returned
\* a delay strictly between them
C19_Witness ==
    /\ \E i \in 1..Len(operationHistory) :
          operationHistory[i] * 10 = randomized.baseDelay * 3
    /\ \E i \in 1..Len(operationHistory) :
          operationHistory[i] = randomized.baseDelay * 3
    /\ randomized.delay * 10 > randomized.baseDelay * 3
    /\ randomized.delay < randomized.baseDelay * 3
    /\ randomized.delay # randomized.baseDelay
    /\ Len(operationHistory) > 3

(***************************************************************************)
(* The mouse path generator (HumanLikeBezierGenerator).  Coordinates are   *)
(* in thousandths of a pixel, curvature, speed and noise in thousandths,   *)
(* the curve parameter t in hundredths.  The random generator is a cyclic  *)
(* block of standard normal deviates (thousandths): the k-th call of       *)
(* gaussianRandom(0, s) returns Cyc(block, k) * s.                         *)
(***************************************************************************)
EndPoints == {[x |-> 0, y |-> 0], [x |-> 10, y |-> 0],
              [x |-> 30, y |-> 40], [x |-> 0, y |-> 90]}

PathConfigs ==
    {[startPoint |-> [x |-> 0, y |-> 0], endPoint |-> e, curvature |-> c,
      speed |-> s, deviation |-> d, noise |-> n] :
        e \in EndPoints, c \in {0, 300}, s \in {300, 1000}, d \in {0, 5},
        n \in {0, 500}}

DeviateBlocks == {<<100>>, <<1000, -1000, 500>>, <<-2000, 300>>}

Milli(point) == [x |-> 1000 * point.x, y |-> 1000 * point.y]

\* new CubicBezier(p0, p1, p2, p3)
CubicBezier(p0, p1, p2, p3) == [p0 |-> p0, p1 |-> p1, p2 |-> p2, p3 |-> p3]

\* one coordinate of CubicBezier.getPoint(c / 100); the four weights are
\* the Bernstein polynomials in ten-thousandths
Bernstein(c, a0, a1, a2, a3) ==
    LET u == 100 - c
    IN  (((u * u * u) \div 100) * a0 + ((3 * u * u * c) \div 100) * a1
         + ((3 * u * c * c) \div 100) * a2 + ((c * c * c) \div 100) * a3)
        \div 10000

getPoint(bezier, c) ==
    [x |-> Bernstein(c, bezier.p0.x, bezier.p1.x, bezier.p2.x, bezier.p3.x),
     y |-> Bernstein(c, bezier.p0.y, bezier.p1.y, bezier.p2.y, bezier.p3.y)]

\* the sum of the chords lo..hi of the 100 chords CubicBezier.getLength adds
\* up; chord i joins the points at (i - 1) / 100 and i / 100
RECURSIVE Chords(_, _, _)
Chords(bezier, lo, hi) ==
    IF lo = hi
    THEN LET point == getPoint(bezier, lo)
             prevPoint == getPoint(bezier, lo - 1)
             dx == point.x - prevPoint.x
             dy == point.y - prevPoint.y
         IN  ISqrt(dx * dx + dy * dy)
    ELSE LET mid == (lo + hi) \div 2
         IN  Chords(bezier, lo, mid) + Chords(bezier, mid + 1, hi)

getLength(bezier) == Chords(bezier, 1, 100)

generateControlPoints(start, end, curvature, deviation, block) ==
    LET dx == end.x - start.x
        dy == end.y - start.y
        length == ISqrt(dx * dx + dy * dy)
    IN  IF length = 0 THEN [cp1 |-> Milli(start), cp2 |-> Milli(end)]
        ELSE LET unitX == (1000 * dx) \div length
                 unitY == (1000 * dy) \div length
                 perpX == 0 - unitY
                 perpY == unitX
                 controlDistance == (length * curvature) \div 2
                 randomDeviation == Cyc(block, 1) * deviation
                 finalDistance == controlDistance + randomDeviation
             IN  [cp1 |-> [x |-> 1000 * start.x + Scale(unitX, 250 * length)
                                 + Scale(perpX, finalDistance \div 2),
                           y |-> 1000 * start.y + Scale(unitY, 250 * length)
                                 + Scale(perpY, finalDistance \div 2)],
                  cp2 |-> [x |-> 1000 * end.x - Scale(unitX, 250 * length)
                                 + Scale(perpX, finalDistance \div 2),
                           y |-> 1000 * end.y - Scale(unitY, 250 * length)
                                 + Scale(perpY, finalDistance \div 2)]]

\* addNoise with the k-th and (k+1)-th deviates of the block
addNoise(point, noiseLevel, block, k) ==
    IF noiseLevel <= 0 THEN point
    ELSE [x |-> point.x + Scale(Cyc(block, k), noiseLevel),
          y |-> point.y + Scale(Cyc(block, k + 1), noiseLevel)]

\* steps = Math.max(20, Math.min(100, pathLength / (2 * speed))), kept as
\* the fraction num / den: it is not rounded to an integer
Steps(pathLength, speed) ==
    IF pathLength <= 20 * (2 * speed) THEN [num |-> 20, den |-> 1]
    ELSE IF pathLength >= 100 * (2 * speed) THEN [num |-> 100, den |-> 1]
    ELSE [num |-> pathLength, den |-> 2 * speed]

generateMousePath(cfg, block) ==
    LET controlPoints == generateControlPoints(cfg.startPoint, cfg.endPoint,
                                               cfg.curvature, cfg.deviation,
                                               block)
        bezier == CubicBezier(Milli(cfg.startPoint), controlPoints.cp1,
                              controlPoints.cp2, Milli(cfg.endPoint))
        steps == Steps(getLength(bezier), cfg.speed)
        drawn == IF cfg.startPoint = cfg.endPoint THEN 0 ELSE 1
    IN  \* for (i = 0; i <= steps; i++): the point of loop index i is at i + 1
        [n \in 1..((steps.num \div steps.den) + 1) |->
            addNoise(getPoint(bezier, (100 * (n - 1) * steps.den) \div steps.num),
                     cfg.noise, block, drawn + 2 * n - 1)]

GeneratePath(block) ==
    /\ path' = generateMousePath(pathConfig, block)
    /\ UNCHANGED <<behaviorConfig, attentionState, operationHistory,
                   randomized, pathConfig, variations>>
    /\ UNCHANGED crawlerVars
    /\ UNCHANGED detectorVars
    /\ UNCHANGED monitorVars
    /\ UNCHANGED executorVars

PathInit ==
    /\ config \in {c \in Configs : c.enableEmergencyStop}
    /\ now = 0
    /\ isActive = FALSE
    /\ safetyCheckTimer = NoTimer
    /\ emergencyStopCallback = "undefined"
    /\ alerts = Constructed.alerts
    /\ usageStats = Constructed.stats
    /\ inputHistory = <<>>
    /\ sessionHistory = <<>>
    /\ stream = <<>>
    /\ emitted = 0
    /\ emergencyStops = 0
    /\ last = Quiet
    /\ ExecutorConstructed
    /\ behaviorConfig = [strategy |-> "moderate",
                         rhythmicVariation |-> 300,
                         attentionDrift |-> 200,
                         fatigueProgression |-> 100]
    /\ attentionState = [level |-> 800, focusPoint |-> NoFocusPoint, lastFocusChange |-> 0,
                         driftVector |-> [x |-> 0, y |-> 0]]
    /\ operationHistory = <<>>
    /\ randomized = NoDelay
    /\ pathConfig \in PathConfigs
    /\ path = NoPath
    /\ variations = <<>>
    /\ CrawlerIdle
    /\ DetectorIdle

PathNext == \E block \in DeviateBlocks : GeneratePath(block)

PathSpec == PathInit /\ [][PathNext]_vars

\* C20: the path returned by generateMousePath has the start point as its
\* first point and the end point as its last point for every noise level,
\* curvature and speed, and it has at least 20 sampled points.
C20_PathKeepsEndpoints ==
    path # NoPath =>
        /\ path[1] = Milli(pathConfig.startPoint)
        /\ path[Len(path)] = Milli(pathConfig.endPoint)
        /\ Len(path) >= 20

(***************************************************************************)
(* The statistics of the executor (HumanInputSimulator.getStatistics).     *)
(* Durations are in ms, rates and scores per mille.                        *)
(***************************************************************************)
\* the clock stops advancing in small steps past this many ms
MaxOperationTime == 200

updateStatistics(stats) ==
    IF Len(eventHistory) = 0 THEN stats
    ELSE LET totalReactionTime ==
                 SumSeq([i \in 1..Len(eventHistory) |->
                            eventHistory[i].duration])
             totalConfidence ==
                 SumSeq([i \in 1..Len(eventHistory) |->
                            eventHistory[i].confidence])
         IN  [stats EXCEPT
                 !.averageReactionTime =
                     totalReactionTime \div Len(eventHistory),
                 !.errorRate =
                     IF session.operationCount > 0
                     THEN (session.errorCount * 1000)
                              \div session.operationCount
                     ELSE 0,
                 !.humanLikenessScore =
                     totalConfidence \div Len(eventHistory),
                 !.fatigueScore = session.fatigueLevel]

\* getStatistics that stamps the statistics with the time of the read
getStatistics_Stamped == [updateStatistics(statistics) EXCEPT !.lastUpdate = now]

\* the statistics object after the update; the caller gets a copy of it
getStatistics == updateStatistics(statistics)

\* returned keeps the copies handed out by the last two reads
GetStatistics ==
    /\ statistics' = getStatistics
    /\ returned' = LastN(Append(returned, statistics'), 2)
    /\ UNCHANGED <<session, keyConfig, listed, inFlight, injected, thrown,
                   calls, eventHistory>>
    /\ UNCHANGED monitorVars
    /\ UNCHANGED pureVars
    /\ UNCHANGED crawlerVars
    /\ UNCHANGED detectorVars

\* the clock of an operation in flight: its sleeps take tenths of a second
Sleep ==
    /\ now < MaxOperationTime
    /\ now' = now + 100
    /\ UNCHANGED <<config, isActive, safetyCheckTimer, emergencyStopCallback,
                   alerts, usageStats, inputHistory, sessionHistory, stream,
                   emitted, emergencyStops, last>>
    /\ UNCHANGED executorVars
    /\ UNCHANGED pureVars
    /\ UNCHANGED crawlerVars
    /\ UNCHANGED detectorVars

\* a fresh executor on a session of any fatigue level
StatisticsInit ==
    /\ config \in {c \in Configs : c.enableEmergencyStop}
    /\ now = 0
    /\ isActive = FALSE
    /\ safetyCheckTimer = NoTimer
    /\ emergencyStopCallback = "undefined"
    /\ alerts = Constructed.alerts
    /\ usageStats = Constructed.stats
    /\ inputHistory = <<>>
    /\ sessionHistory = <<>>
    /\ stream = <<>>
    /\ emitted = 0
    /\ emergencyStops = 0
    /\ last = Quiet
    /\ session \in {[operationCount |-> 0, errorCount |-> 0,
                     fatigueLevel |-> f] : f \in {0, 300}}
    /\ keyConfig = [key |-> "a", modifiers |-> <<"control", "shift">>]
    /\ listed = keyConfig.modifiers
    /\ inFlight = Idle
    /\ injected = <<>>
    /\ thrown = NoError
    /\ calls = 0
    /\ eventHistory = <<>>
    /\ statistics = [totalEvents |-> 0, averageReactionTime |-> 0,
                     mousePathAccuracy |-> 0, errorRate |-> 0,
                     fatigueScore |-> 0, humanLikenessScore |-> 0,
                     lastUpdate |-> 0]
    /\ returned = <<>>
    /\ RandomizerConstructed
    /\ CrawlerIdle
    /\ DetectorIdle

StatisticsNext ==
    \/ Move
    \/ Click("none", FALSE)
    \/ \E ok \in BOOLEAN : Inject(ok)
    \/ Sleep
    \/ GetStatistics

StatisticsSpec == StatisticsInit /\ [][StatisticsNext]_vars

\* C21: two consecutive getStatistics calls with no operation executed and
\* no event recorded in between return identical values in every field.
C21_StatisticsReadIdempotent ==
    Len(returned) = 2 => returned[1] = returned[2]

\* two reads in a row, later than the last recorded event, of a history
\* that holds events of operations that took time, on a session that counts
\* an error
C21_Witness ==
    /\ Len(returned) = 2
    /\ returned[2].averageReactionTime > 0
    /\ returned[2].humanLikenessScore > 0
    /\ returned[2].errorRate > 0
    /\ returned[2].lastUpdate < now

(***************************************************************************)
(* A long run of the randomizer with its constructor's configuration.      *)
(***************************************************************************)
\* number of randomizeDelay calls of the long run
LongRunDelays == 260

LongDelayInit ==
    /\ DelayInit
    /\ behaviorConfig.strategy = "moderate"
    /\ behaviorConfig.rhythmicVariation = 300
    /\ attentionState.level = 800
    /\ session.fatigueLevel = 1000

LongDelayNext ==
    /\ Len(operationHistory) < LongRunDelays
    /\ RandomizeDelay(5000, [rhythm |-> 999, attention |-> 999,
                             fatigue |-> 999, z |-> 1000])

LongDelaySpec == LongDelayInit /\ [][LongDelayNext]_vars

\* C22: the variation log of the randomizer is bounded: the number of
\* Variation records it retains does not exceed a fixed cap (the cap the
\* randomizer applies to the history it trims, OperationHistoryLimit).
C22_VariationLogBounded == Len(variations) <= OperationHistoryLimit

(***************************************************************************)
(* BehaviorRandomizer.randomizeMousePosition.  Positions and offsets are   *)
(* in thousandths of a pixel, the precision and the configured amounts per *)
(* mille, a Gaussian deviate z in thousandths.                             *)
(***************************************************************************)

\* the constructor's defaults of the two amounts randomizeDelay never reads
DefaultMicroAdjustments == 150

DefaultErrorSimulation == 20

\* bound on the records in the variation log at the start of a
\* randomizeMousePosition call
MaxPositionRecords == 6

\* context.targetSize in pixels (10 is the default) and context.precision
\* (0.85 is the default)
TargetSizes == {10, 20}

Precisions == {850, 900}

\* the random draws of one call: the deviates of the precision deviation
\* (zx, zy) and of the micro adjustment (mx, my), the draw of
\* shouldSimulateError, and the distance draw and direction of the misclick
PositionDraws ==
    {[zx |-> 0, zy |-> 0, mx |-> 0, my |-> 0, error |-> 500,
      distance |-> 0, cos |-> 1000, sin |-> 0],
     [zx |-> 300, zy |-> -400, mx |-> 100, my |-> 0, error |-> 500,
      distance |-> 0, cos |-> 1000, sin |-> 0],
     [zx |-> 1000, zy |-> 1000, mx |-> -300, my |-> 400, error |-> 500,
      distance |-> 0, cos |-> 1000, sin |-> 0],
     [zx |-> -2000, zy |-> 500, mx |-> 1000, my |-> -1000, error |-> 10,
      distance |-> 500, cos |-> 0, sin |-> 1000]}

SpatialVariation(type, description, offsetX, offsetY, severity) ==
    [type |-> type, description |-> description,
     offset |-> [x |-> offsetX, y |-> offsetY], severity |-> severity]

applyPrecisionDeviation(targetSize, precision, draw) ==
    LET maxDeviation == targetSize * (1000 - precision)
        offsetX == Scale(maxDeviation, draw.zx)
        offsetY == Scale(maxDeviation, draw.zy)
    IN  SpatialVariation("spatial_deviation", "precision", offsetX, offsetY,
            (ISqrt(offsetX * offsetX + offsetY * offsetY) * 1000)
                \div maxDeviation)

applyAttentionDrift ==
    LET driftStrength == Scale(1000 - attentionState.level,
                               behaviorConfig.attentionDrift)
        offsetX == Scale(attentionState.driftVector.x, driftStrength) * 10
        offsetY == Scale(attentionState.driftVector.y, driftStrength) * 10
    IN  SpatialVariation("spatial_deviation", "attention drift",
            offsetX, offsetY,
            ISqrt(offsetX * offsetX + offsetY * offsetY) \div 50)

applyMicroAdjustment(draw) ==
    LET adjustmentStrength == DefaultMicroAdjustments
        offsetX == Scale(adjustmentStrength * 2, draw.mx)
        offsetY == Scale(adjustmentStrength * 2, draw.my)
    IN  SpatialVariation("spatial_deviation", "micro adjustment",
            offsetX, offsetY,
            (ISqrt(offsetX * offsetX + offsetY * offsetY) * 1000)
                \div adjustmentStrength)

shouldSimulateError(draw) == draw.error < DefaultErrorSimulation

simulateMisclick(targetSize, draw) ==
    LET misclickDistance == targetSize * (2000 + 3 * draw.distance)
    IN  SpatialVariation("misclick", "misclick",
            Scale(misclickDistance, draw.cos),
            Scale(misclickDistance, draw.sin), 1000)

\* the records one randomizeMousePosition call pushes on this.variations:
\* the three deviations always, the misclick when an error is simulated
pushedPositionVariations(targetSize, precision, draw) ==
    <<applyPrecisionDeviation(targetSize, precision, draw),
      applyAttentionDrift, applyMicroAdjustment(draw)>>
    \o (IF shouldSimulateError(draw)
        THEN <<simulateMisclick(targetSize, draw)>> ELSE <<>>)

\* the call returns the deviations whose offset is not (0, 0), applied to
\* the target, and the misclick, which replaces the adjusted position
randomizeMousePosition(targetPosition, targetSize, precision, draw) ==
    LET pushed == pushedPositionVariations(targetSize, precision, draw)
        applied == SelectSeq(pushed,
                       LAMBDA v : v.type = "misclick"
                                  \/ v.offset.x # 0 \/ v.offset.y # 0)
        moved(i) == IF pushed[i].type = "misclick" THEN [x |-> 0, y |-> 0]
                    ELSE pushed[i].offset
        adjusted == [x |-> targetPosition.x + moved(1).x + moved(2).x
                               + moved(3).x,
                     y |-> targetPosition.y + moved(1).y + moved(2).y
                               + moved(3).y]
    IN  [position |->
             IF shouldSimulateError(draw)
             THEN [x |-> targetPosition.x + pushed[4].offset.x,
                   y |-> targetPosition.y + pushed[4].offset.y]
             ELSE adjusted,
         variations |-> applied]

RandomizePosition(targetSize, precision, draw) ==
    /\ randomized' = randomizeMousePosition([x |-> 100000, y |-> 200000],
                                            targetSize, precision, draw)
    /\ variations' =
           variations \o pushedPositionVariations(targetSize, precision, draw)
    /\ UNCHANGED <<behaviorConfig, attentionState, operationHistory,
                   pathConfig, path>>
    /\ UNCHANGED crawlerVars
    /\ UNCHANGED detectorVars
    /\ UNCHANGED monitorVars
    /\ UNCHANGED executorVars

\* a randomizer constructed with the default amounts
PositionInit ==
    /\ DelayInit
    /\ behaviorConfig.strategy = "moderate"
    /\ behaviorConfig.attentionDrift = 200

PositionNext ==
    /\ Len(variations) < MaxPositionRecords
    /\ \E targetSize \in TargetSizes, precision \in Precisions,
          draw \in PositionDraws :
           RandomizePosition(targetSize, precision, draw)

PositionSpec == PositionInit /\ [][PositionNext]_vars

\* the records the last step appended to the variation log
AppendedVariations ==
    SubSeq(variations', Len(variations) + 1, Len(variations'))

\* C28: one randomizeDelay call appends to the variation log exactly one
\* Variation record for each of the four contributors whose offset is
\* non-zero (the ones it returns), and none for a contributor whose offset
\* is zero.
C28_OneRecordPerNonZeroOffset ==
    [][Len(operationHistory') = Len(operationHistory) + 1
          => AppendedVariations = randomized'.variations]_vars

\* C29: every Variation record the randomizer has produced has a severity
\* within [0, 1].
C29_SeverityInUnitRange ==
    \A i \in 1..Len(variations) :
        variations[i].severity >= 0 /\ variations[i].severity <= 1000

(***************************************************************************)
(* GitHubStarCrawler.crawlRepository with its checkpoint.  A username is   *)
(* a number.  crawl.state is the await the call is suspended at:           *)
(* "fetching" (getUserInfo of remaining[i]), "saving" (saveCheckpoint),    *)
(* "finishing" (getRateLimit), or "idle", "done", "failed" when no call is *)
(* running.  requests is the log of the running call's GitHub requests and *)
(* checkpoint writes.                                                      *)
(***************************************************************************)

\* bound on the number of stargazers of the repository
MaxStargazers == 11

\* bound on the failed requests and failed writes of one call
MaxFaults == 1

\* bound on the number of crawlRepository calls
MaxRuns == 2

\* const batchSize = 10
BatchSize == 10

Usernames(n) == [u \in 1..n |-> u]

\* GET /users/<username> when the request gets through: every fourth
\* account is gone (404), every third of the others hides its email
userAnswer(username) == IF username % 4 = 0 THEN "notfound" ELSE "ok"

\* EmailExtractor.extractEmailData of the answer
extractEmailData(username) ==
    [username |-> username, email |-> username % 3 # 0]

Request(kind, target, outcome) ==
    [kind |-> kind, target |-> target, outcome |-> outcome]

Faults ==
    Cardinality({k \in 1..Len(requests) :
                     requests[k].outcome \in {"network", "ratelimit", "error"}})

\* CheckpointManager.loadCheckpoint: the saved file parsed, or null
loadCheckpoint == checkpointFile

createInitialCheckpoint(totalStargazers) ==
    [repository |-> "owner/repo", processedUsers |-> <<>>,
     completedUsers |-> <<>>, totalStargazers |-> totalStargazers]

includes(list, x) == \E k \in 1..Len(list) : list[k] = x

\* allStargazers.filter(username => !checkpoint.processedUsers.includes(username))
remainingUsers_Unfiltered(allStargazers, processedUsers) == allStargazers

remainingUsers(allStargazers, processedUsers) ==
    SelectSeq(allStargazers, LAMBDA u : ~includes(processedUsers, u))

\* crawlRepository up to its first await inside processUsersProgressively.
\* first and second are the outcomes of the two getStargazers calls (the
\* first is made only when no checkpoint was loaded); a network error
\* makes getStargazers throw, and crawlRepository rethrows it.
CrawlRepository(resume, first, second) ==
    /\ crawl.state \in {"idle", "done", "failed"}
    /\ crawl.runs < MaxRuns
    /\ LET loaded == IF resume THEN loadCheckpoint ELSE NoCheckpoint
           started == [NotCrawling EXCEPT !.runs = crawl.runs + 1,
                                          !.loaded = loaded]
           listing(outcome) == Request("stargazers", 0, outcome)
           firstLog == IF loaded = NoCheckpoint THEN <<listing(first)>>
                       ELSE <<>>
       IN  IF loaded = NoCheckpoint /\ first = "network"
           THEN /\ crawl' = [started EXCEPT !.state = "failed"]
                /\ checkpoint' = NoCheckpoint
                /\ requests' = firstLog
           ELSE IF loaded = NoCheckpoint /\ Len(stargazers) = 0
           THEN \* createEmptyResult
                /\ crawl' = [started EXCEPT !.state = "done"]
                /\ checkpoint' = NoCheckpoint
                /\ requests' = firstLog
           ELSE IF second = "network"
           THEN /\ crawl' = [started EXCEPT !.state = "failed"]
                /\ checkpoint' = NoCheckpoint
                /\ requests' = Append(firstLog, listing(second))
           ELSE LET current == IF loaded = NoCheckpoint
                               THEN createInitialCheckpoint(Len(stargazers))
                               ELSE loaded
                    remaining == remainingUsers(stargazers,
                                                current.processedUsers)
                IN  /\ checkpoint' = current
                    /\ requests' = Append(firstLog, listing(second))
                    /\ crawl' = [started EXCEPT
                           !.remaining = remaining,
                           !.i = IF remaining = <<>> THEN 0 ELSE 1,
                           !.state = IF remaining = <<>> THEN "finishing"
                                     ELSE "fetching"]
    /\ UNCHANGED <<stargazers, checkpointFile, outputFile>>
    /\ UNCHANGED directoryVars
    /\ UNCHANGED detectorVars
    /\ UNCHANGED pureVars
    /\ UNCHANGED monitorVars
    /\ UNCHANGED executorVars

\* processedInBatch >= batchSize || i === usernames.length - 1, with i
\* counted from 1
batchComplete_OnlyAtEnd(processedInBatch, i, length) == i = length

batchComplete(processedInBatch, i, length) ==
    processedInBatch >= BatchSize \/ i = length

\* the loop body from the await of getUserInfo to the next await.
\* getUserInfo answers null for a 404 and for a network error; after a 403
\* with a reset time in the future it sleeps and asks again.
GetUserInfo(outcome) ==
    /\ crawl.state = "fetching"
    /\ LET username == crawl.remaining[crawl.i]
           answer == IF outcome = "answer" THEN userAnswer(username)
                     ELSE outcome
           processedInBatch == crawl.processedInBatch + 1
       IN  /\ requests' = Append(requests, Request("user", username, answer))
           /\ IF outcome = "ratelimit"
              THEN UNCHANGED <<crawl, checkpoint>>
              ELSE /\ checkpoint' =
                          [checkpoint EXCEPT
                              !.completedUsers =
                                  IF answer = "ok"
                                  THEN Append(@, extractEmailData(username))
                                  ELSE @,
                              !.processedUsers = Append(@, username)]
                   /\ crawl' =
                          IF batchComplete(processedInBatch, crawl.i,
                                           Len(crawl.remaining))
                          THEN [crawl EXCEPT
                                   !.processedInBatch = processedInBatch,
                                   !.state = "saving"]
                          ELSE [crawl EXCEPT
                                   !.processedInBatch = processedInBatch,
                                   !.i = @ + 1]
    /\ UNCHANGED <<stargazers, checkpointFile, outputFile>>
    /\ UNCHANGED directoryVars
    /\ UNCHANGED detectorVars
    /\ UNCHANGED pureVars
    /\ UNCHANGED monitorVars
    /\ UNCHANGED executorVars

\* writeProgressCsv on the file options.output: the records of the file
\* after the call.  createObjectCsvWriter appends the records to the file
\* when append is true and replaces the file by them otherwise.
writeProgressCsv(cp, file) ==
    LET usersWithEmail == SelectSeq(cp.completedUsers, LAMBDA u : u.email)
        append == Len(cp.processedUsers) > Len(usersWithEmail)
    IN  IF Len(usersWithEmail) = 0 THEN file
        ELSE IF append THEN file \o usersWithEmail
        ELSE usersWithEmail

\* await CheckpointManager.saveCheckpoint(checkpoint), writeProgressData
\* (csv format, a fixed options.output) and the rest of the loop body.  A
\* failed checkpoint write throws into the catch of the loop body, which
\* goes on with the next user without resetting processedInBatch and
\* without writing the progress file.
SaveCheckpoint(ok) ==
    /\ crawl.state = "saving"
    /\ requests' = Append(requests,
                       Request("save", 0, IF ok THEN "ok" ELSE "error"))
    /\ checkpointFile' = IF ok THEN checkpoint ELSE checkpointFile
    /\ outputFile' = IF ok THEN writeProgressCsv(checkpoint, outputFile)
                     ELSE outputFile
    /\ crawl' = [crawl EXCEPT
           !.processedInBatch = IF ok THEN 0 ELSE @,
           !.i = IF crawl.i = Len(crawl.remaining) THEN @ ELSE @ + 1,
           !.state = IF crawl.i = Len(crawl.remaining) THEN "finishing"
                     ELSE "fetching"]
    /\ UNCHANGED <<stargazers, checkpoint>>
    /\ UNCHANGED directoryVars
    /\ UNCHANGED detectorVars
    /\ UNCHANGED pureVars
    /\ UNCHANGED monitorVars
    /\ UNCHANGED executorVars

\* after the loop: getRateLimit (which never throws), deleteCheckpoint, and
\* the result built from checkpoint.completedUsers
FinishCrawl ==
    /\ crawl.state = "finishing"
    /\ requests' = Append(requests, Request("rate_limit", 0, "ok"))
    /\ checkpointFile' = NoCheckpoint
    /\ crawl' = [crawl EXCEPT !.state = "done",
                              !.users = checkpoint.completedUsers]
    /\ UNCHANGED <<stargazers, checkpoint, outputFile>>
    /\ UNCHANGED directoryVars
    /\ UNCHANGED detectorVars
    /\ UNCHANGED pureVars
    /\ UNCHANGED monitorVars
    /\ UNCHANGED executorVars

\* the process is killed while the call is suspended: what is in memory is
\* lost, the checkpoint file stays
Interrupt ==
    /\ crawl.state \in {"fetching", "saving", "finishing"}
    /\ crawl' = [NotCrawling EXCEPT !.runs = crawl.runs]
    /\ checkpoint' = NoCheckpoint
    /\ UNCHANGED <<stargazers, checkpointFile, requests, outputFile>>
    /\ UNCHANGED directoryVars
    /\ UNCHANGED detectorVars
    /\ UNCHANGED pureVars
    /\ UNCHANGED monitorVars
    /\ UNCHANGED executorVars

\* the monitor, the executor and the randomizer as constructed and idle
AgentIdle ==
    /\ config \in {c \in Configs : c.enableEmergencyStop}
    /\ now = 0
    /\ isActive = FALSE
    /\ safetyCheckTimer = NoTimer
    /\ emergencyStopCallback = "undefined"
    /\ alerts = Constructed.alerts
    /\ usageStats = Constructed.stats
    /\ inputHistory = <<>>
    /\ sessionHistory = <<>>
    /\ stream = <<>>
    /\ emitted = 0
    /\ emergencyStops = 0
    /\ last = Quiet
    /\ ExecutorConstructed
    /\ keyConfig.modifiers = <<>>
    /\ RandomizerConstructed

\* a repository with no, a few, or more than a batch of stargazers; no
\* crawl has run
CrawlInit ==
    /\ AgentIdle
    /\ DetectorIdle
    /\ stargazers \in {Usernames(n) : n \in {0, 3, MaxStargazers}}
    /\ checkpointFile = NoCheckpoint
    /\ checkpoint = NoCheckpoint
    /\ crawl = NotCrawling
    /\ requests = <<>>
    /\ outputFile = <<>>
    /\ DirectoryEmpty

CrawlNext ==
    \/ \E resume \in BOOLEAN, first, second \in {"ok", "network"} :
           /\ (first = "network" \/ second = "network") => Faults < MaxFaults
           /\ CrawlRepository(resume, first, second)
    \/ \E outcome \in {"answer", "network", "ratelimit"} :
           /\ outcome # "answer" => Faults < MaxFaults
           /\ GetUserInfo(outcome)
    \/ \E ok \in BOOLEAN :
           /\ ~ok => Faults < MaxFaults
           /\ SaveCheckpoint(ok)
    \/ FinishCrawl
    \/ Interrupt

CrawlSpec == CrawlInit /\ [][CrawlNext]_vars

\* C23: when crawlRepository resumes from an existing checkpoint, no
\* username listed in the processedUsers of that checkpoint is fetched
\* again, and the users the checkpoint lists as completed are part of the
\* result the call returns.
C23_ResumeSkipsProcessed ==
    crawl.loaded # NoCheckpoint =>
        /\ \A k \in 1..Len(requests) :
               requests[k].kind = "user" =>
                   ~includes(crawl.loaded.processedUsers, requests[k].target)
        /\ crawl.state = "done" =>
               \A k \in 1..Len(crawl.loaded.completedUsers) :
                   includes(crawl.users, crawl.loaded.completedUsers[k])

\* a call that resumed from a checkpoint of one full batch has fetched the
\* users that were left and has returned
C23_Witness ==
    /\ crawl.loaded # NoCheckpoint
    /\ Len(crawl.loaded.processedUsers) = BatchSize
    /\ crawl.state = "done"
    /\ Len(crawl.users) > Len(crawl.loaded.completedUsers)
    /\ \E k \in 1..Len(requests) : requests[k].kind = "user"

\* the position in the log of the last checkpoint write that succeeded,
\* 0 when the running call has written none
LastSaved ==
    LET saves == {k \in 1..Len(requests) :
                      requests[k].kind = "save" /\ requests[k].outcome = "ok"}
    IN  IF saves = {} THEN 0
        ELSE CHOOSE k \in saves : \A j \in saves : j <= k

\* the number of users processed since the last saved checkpoint
SinceLastSave ==
    Cardinality({k \in (LastSaved + 1)..Len(requests) :
                     /\ requests[k].kind = "user"
                     /\ requests[k].outcome # "ratelimit"})

NoFailedWrite ==
    \A k \in (LastSaved + 1)..Len(requests) : requests[k].outcome # "error"

Processing == crawl.state \in {"fetching", "saving", "finishing"}

\* the users a kill of the process would lose: those the checkpoint in
\* memory lists as processed and the checkpoint file of this call does not
Unsaved ==
    Len(checkpoint.processedUsers)
        - (IF LastSaved > 0 \/ crawl.loaded # NoCheckpoint
           THEN Len(checkpointFile.processedUsers) ELSE 0)

DefaultMaxRetries == 3

\* request k is repeated by the next request of the log
Retried(k) ==
    /\ k < Len(requests)
    /\ requests[k + 1].kind = requests[k].kind
    /\ requests[k + 1].target = requests[k].target

\* request k is the last of maxRetries + 1 attempts that all failed
RetriesExhausted(k) ==
    /\ k > DefaultMaxRetries
    /\ \A j \in (k - DefaultMaxRetries)..k :
           /\ requests[j].outcome = "network"
           /\ requests[j].kind = requests[k].kind
           /\ requests[j].target = requests[k].target

\* request k is the latest one and the call has not gone past it
RetryPending(k) ==
    /\ k = Len(requests)
    /\ crawl.state = "fetching"
    /\ requests[k].kind = "user"
    /\ crawl.remaining[crawl.i] = requests[k].target
    /\ ~includes(checkpoint.processedUsers, requests[k].target)

\* C25: when a GitHub request fails because of a network error the client
\* retries it, at most maxRetries times, before it reports the failure or
\* goes on.
C25_NetworkErrorRetried ==
    \A k \in 1..Len(requests) :
        requests[k].outcome = "network" =>
            Retried(k) \/ RetryPending(k) \/ RetriesExhausted(k)

(***************************************************************************)
(* SafetyMonitor.detectRepeatingPattern as a function of its argument.     *)
(***************************************************************************)

\* bound on the length of the sequences enumerated in full
MaxSequenceLength == 6

Repeat(block, times) ==
    [i \in 1..(Len(block) * times) |-> block[((i - 1) % Len(block)) + 1]]

\* every sequence over three types up to the bound, and repetitions of
\* blocks with periods 4, 5, 10 and 11
PatternInputs ==
    UNION {[1..n -> {"A", "B", "C"}] : n \in 0..MaxSequenceLength}
    \cup {Repeat(<<"A", "B", "A", "C">>, 2),
          Repeat(<<"A", "B", "A", "C">>, 3),
          Repeat(<<"A", "A", "B", "A", "B">>, 2),
          Repeat(<<"A", "A", "A", "A", "A", "A", "A", "A", "A", "B">>, 2),
          Repeat(<<"A", "A", "A", "A", "A", "A", "A", "A", "A", "B">>, 3),
          Repeat(<<"A", "A", "A", "A", "A", "A", "A", "A", "A", "A", "B">>, 2),
          Repeat(<<"A">>, 12), Repeat(<<"A">>, 21)}

\* one call on the sequence the caller holds
DetectRepeatingPattern ==
    /\ patternOutput' = detectRepeatingPattern(patternInput)
    /\ UNCHANGED patternInput
    /\ UNCHANGED crawlerVars
    /\ UNCHANGED pureVars
    /\ UNCHANGED monitorVars
    /\ UNCHANGED executorVars

PatternInit ==
    /\ AgentIdle
    /\ CrawlerIdle
    /\ patternInput \in PatternInputs
    /\ patternOutput = -1

PatternNext == DetectRepeatingPattern

PatternSpec == PatternInit /\ [][PatternNext]_vars

\* the sequence is its first L elements written two or more times
IsRepetitionOfFirst(sequence, L) ==
    /\ Len(sequence) % L = 0
    /\ Len(sequence) >= 2 * L
    /\ \A i \in 1..Len(sequence) : sequence[i] = sequence[((i - 1) % L) + 1]

\* C26: detectRepeatingPattern(seq) returns the smallest L in [2,10] such
\* that seq is an exact repetition of its first L elements, and 0 when
\* there is no such L; it returns 2 for A B A B and 0 for A B C.
C26_SmallestRepeatingBlock ==
    patternOutput # -1 =>
        /\ \/ /\ patternOutput = 0
              /\ \A L \in 2..10 : ~IsRepetitionOfFirst(patternInput, L)
           \/ /\ patternOutput \in 2..10
              /\ IsRepetitionOfFirst(patternInput, patternOutput)
              /\ \A L \in 2..(patternOutput - 1) :
                     ~IsRepetitionOfFirst(patternInput, L)
        /\ patternInput = <<"A", "B", "A", "B">> => patternOutput = 2
        /\ patternInput = <<"A", "B", "C">> => patternOutput = 0

\* the detector has answered 2 for A B A B
C26_Witness ==
    /\ patternInput = <<"A", "B", "A", "B">>
    /\ patternOutput = 2

\* C27: the fatigue score lies in [0,1], and it is non-decreasing in the
\* elapsed session time when the operation rate and the recent error rate
\* are held fixed: after k times the elapsed time with k times the
\* operations it is not lower.
C27_FatigueMonotoneInUnitRange ==
    LET sessionDuration == now - usageStats.sessionStartTime
    IN  /\ calculateFatigueLevel >= 0
        /\ calculateFatigueLevel <= 1000
        /\ \A k \in 1..3 :
               fatigueAt(k * sessionDuration, k * usageStats.operationCount)
                   >= calculateFatigueLevel

(***************************************************************************)
(* BehaviorRandomizer.updateAttentionState.  The level, the stimulus       *)
(* fields and the drift vector are per mille; NaN stands for the number    *)
(* NaN, which Math.min and Math.max return when an argument is NaN.        *)
(***************************************************************************)

\* bound on the time of the last call, in ms
MaxAttentionTime == 3

\* no stimulus (every field defaults to 0.5), a dull and complex one, an
\* intensity far outside [0,1] in both directions, and one with a field
\* that is not a number
Stimuli ==
    {[intensity |-> 500, novelty |-> 500, complexity |-> 500],
     [intensity |-> 0, novelty |-> 0, complexity |-> 1000],
     [intensity |-> 100000, novelty |-> 0, complexity |-> 500],
     [intensity |-> -100000, novelty |-> 1000, complexity |-> 0],
     [intensity |-> NaN, novelty |-> 500, complexity |-> 500]}

\* the two Gaussian deviates of updateAttentionDrift, in thousandths
DriftDraws == {[zx |-> 3000, zy |-> 4000], [zx |-> -2000, zy |-> 0],
               [zx |-> 0, zy |-> -1000]}

\* whether the 5% draw hits, and the point this.random() * 1920,
\* this.random() * 1080 the focus moves to when it does
FocusDraws == {[hit |-> FALSE, x |-> 0, y |-> 0],
               [hit |-> TRUE, x |-> 960, y |-> 540]}

\* a / b rounded towards zero
Towards0(a, b) == IF a < 0 THEN 0 - ((0 - a) \div b) ELSE a \div b

\* Math.max(0.1, Math.min(1.0, level + attentionDelta))
attentionLevel(level, stimulus) ==
    IF \/ level = NaN
       \/ stimulus.intensity = NaN
       \/ stimulus.novelty = NaN
       \/ stimulus.complexity = NaN
    THEN NaN
    ELSE LET attentionDelta ==
                 Towards0((stimulus.intensity - 500) * 200, 1000)
                 + Towards0(stimulus.novelty * 300, 1000)
                 - Towards0((stimulus.complexity - 500) * 100, 1000)
                 - 20
         IN  Max(100, Min(1000, level + attentionDelta))

\* the drift vector moved by Gaussian(0, 0.1) per axis and scaled back to
\* magnitude 1.0 when it is longer; the division is rounded towards zero
updateAttentionDrift(driftVector, draw) ==
    LET x == driftVector.x + Scale(100, draw.zx)
        y == driftVector.y + Scale(100, draw.zy)
        squared == x * x + y * y
        driftMagnitude == ISqrt(squared - 1) + 1
    IN  IF squared > 1000000
        THEN [x |-> Towards0(x * 1000, driftMagnitude),
              y |-> Towards0(y * 1000, driftMagnitude)]
        ELSE [x |-> x, y |-> y]

\* one call, a millisecond after the previous one
UpdateAttentionState(stimulus, draw, focus) ==
    /\ now < MaxAttentionTime
    /\ now' = now + 1
    /\ attentionState' =
           [level |-> attentionLevel(attentionState.level, stimulus),
            focusPoint |-> IF focus.hit THEN [x |-> focus.x, y |-> focus.y]
                           ELSE attentionState.focusPoint,
            lastFocusChange |-> IF focus.hit THEN now'
                                ELSE attentionState.lastFocusChange,
            driftVector |->
                updateAttentionDrift(attentionState.driftVector, draw)]
    /\ UNCHANGED <<behaviorConfig, operationHistory, randomized, pathConfig,
                   path, variations>>
    /\ UNCHANGED <<config, isActive, safetyCheckTimer, emergencyStopCallback,
                   alerts, usageStats, inputHistory, sessionHistory, stream,
                   emitted, emergencyStops, last>>
    /\ UNCHANGED crawlerVars
    /\ UNCHANGED detectorVars
    /\ UNCHANGED executorVars

AttentionInit ==
    /\ AgentIdle
    /\ CrawlerIdle
    /\ DetectorIdle

AttentionNext ==
    \E stimulus \in Stimuli, draw \in DriftDraws, focus \in FocusDraws :
        UpdateAttentionState(stimulus, draw, focus)

AttentionSpec == AttentionInit /\ [][AttentionNext]_vars

\* C30: after any sequence of updateAttentionState calls with any stimulus
\* values the attention level lies in [0.1, 1.0] and the magnitude of the
\* drift vector is at most 1.0.
C30_AttentionWithinBounds ==
    /\ attentionState.level >= 100
    /\ attentionState.level <= 1000
    /\ attentionState.driftVector.x * attentionState.driftVector.x
           + attentionState.driftVector.y * attentionState.driftVector.y
       <= 1000000

(***************************************************************************)
(* BehaviorRandomizer.randomizeOperationSequence.  A draw of this.random() *)
(* is per mille; null stands for the value the helpers return in place of  *)
(* a Variation when the sequence is too short to change.                   *)
(***************************************************************************)

\* bound on the records in the variation log at the start of a
\* randomizeOperationSequence call
MaxSequenceRecords == 2

null == [type |-> "null"]

OperationSequences ==
    {<<>>, <<"a">>, <<"a", "b">>, <<"a", "a">>, <<"a", "b", "c">>}

SequenceContexts ==
    {[allowReordering |-> r, allowOmission |-> o, allowDuplication |-> d] :
         r, o, d \in BOOLEAN}

\* the draws of shouldReorderSequence, shouldOmitOperation and
\* shouldDuplicateOperation, and those of the indices: the two of the swap
\* (the second is drawn again until it differs), the omitted and the
\* duplicated one
SequenceDraws ==
    {[reorder |-> r, omit |-> o, duplicate |-> d, index1 |-> i.a,
      index2 |-> i.b, omitIndex |-> i.c, duplicateIndex |-> i.d] :
         r \in {10, 500}, o \in {10, 500}, d \in {5, 500},
         i \in {[a |-> 0, b |-> 999, c |-> 0, d |-> 999],
                [a |-> 600, b |-> 0, c |-> 999, d |-> 0]}}

\* Math.floor(this.random() * sequence.length), counted from 1
IndexOf(draw, length) == ((draw * length) \div 1000) + 1

SequenceVariation(type, description, severity) ==
    [type |-> type, description |-> description, severity |-> severity]

reorderSequence(sequence, draw) ==
    IF Len(sequence) < 2 THEN [sequence |-> sequence, variation |-> null]
    ELSE LET index1 == IndexOf(draw.index1, Len(sequence))
             index2 == IndexOf(draw.index2, Len(sequence))
         IN  [sequence |-> [sequence EXCEPT ![index1] = sequence[index2],
                                            ![index2] = sequence[index1]],
              variation |-> SequenceVariation("sequence_reversal", "swap",
                                              300)]

omitOperation(sequence, draw) ==
    IF Len(sequence) = 0 THEN [sequence |-> sequence, variation |-> null]
    ELSE LET omitIndex == IndexOf(draw.omitIndex, Len(sequence))
         IN  [sequence |-> SubSeq(sequence, 1, omitIndex - 1)
                           \o SubSeq(sequence, omitIndex + 1, Len(sequence)),
              variation |-> SequenceVariation("sequence_reversal", "omit",
                                              500)]

duplicateOperation(sequence, draw) ==
    IF Len(sequence) = 0 THEN [sequence |-> sequence, variation |-> null]
    ELSE LET duplicateIndex == IndexOf(draw.duplicateIndex, Len(sequence))
         IN  [sequence |-> SubSeq(sequence, 1, duplicateIndex)
                           \o SubSeq(sequence, duplicateIndex, Len(sequence)),
              variation |-> SequenceVariation("double_tap", "duplicate",
                                              400)]

\* the three steps in order; stages lists the sequence before and after
\* each step, taken or not
randomizeOperationSequence(sequence, context, draw) ==
    LET reordering == context.allowReordering /\ draw.reorder < 50
        reordered == IF reordering THEN reorderSequence(sequence, draw)
                     ELSE [sequence |-> sequence, variation |-> null]
        omission == context.allowOmission /\ draw.omit < 20
        omitted == IF omission THEN omitOperation(reordered.sequence, draw)
                   ELSE [sequence |-> reordered.sequence, variation |-> null]
        duplication == context.allowDuplication /\ draw.duplicate < 10
        duplicated ==
            IF duplication THEN duplicateOperation(omitted.sequence, draw)
            ELSE [sequence |-> omitted.sequence, variation |-> null]
    IN  [sequence |-> duplicated.sequence,
         variations |->
             (IF reordering THEN <<reordered.variation>> ELSE <<>>)
             \o (IF omission THEN <<omitted.variation>> ELSE <<>>)
             \o (IF duplication THEN <<duplicated.variation>> ELSE <<>>),
         stages |-> <<sequence, reordered.sequence, omitted.sequence,
                      duplicated.sequence>>]

\* a helper that returns null has pushed nothing on this.variations
RandomizeSequence(sequence, context, draw) ==
    /\ Len(sequence) >= 2 =>
           IndexOf(draw.index1, Len(sequence))
               # IndexOf(draw.index2, Len(sequence))
    /\ randomized' = randomizeOperationSequence(sequence, context, draw)
    /\ variations' = variations
                     \o SelectSeq(randomized'.variations,
                                  LAMBDA v : v # null)
    /\ UNCHANGED <<behaviorConfig, attentionState, operationHistory,
                   pathConfig, path>>
    /\ UNCHANGED crawlerVars
    /\ UNCHANGED detectorVars
    /\ UNCHANGED monitorVars
    /\ UNCHANGED executorVars

SequenceInit ==
    /\ AgentIdle
    /\ CrawlerIdle
    /\ DetectorIdle

SequenceNext ==
    /\ Len(variations) < MaxSequenceRecords
    /\ \E sequence \in OperationSequences, context \in SequenceContexts,
          draw \in SequenceDraws :
           RandomizeSequence(sequence, context, draw)

SequenceSpec == SequenceInit /\ [][SequenceNext]_vars

\* C31: for every input sequence, empty and single-element ones included,
\* every entry of the variations list randomizeOperationSequence returns is
\* a well-formed Variation record, and the list has one entry per change
\* actually made to the sequence.
C31_EachChangeRecorded ==
    "stages" \in DOMAIN randomized =>
        /\ \A i \in 1..Len(randomized.variations) :
               randomized.variations[i] # null
        /\ Len(randomized.variations)
               = Cardinality({k \in 1..3 : randomized.stages[k + 1]
                                               # randomized.stages[k]})

\* the key or button pressed by injection call i stays down: no later call
\* of the operation has released it
LeftDown(i) ==
    /\ injected[i].dir = "down"
    /\ injected[i].ok
    /\ ~\E j \in (i + 1)..Len(injected) :
           /\ injected[j].port = injected[i].port
           /\ injected[j].arg = injected[i].arg
           /\ injected[j].dir = "up"
           /\ injected[j].ok

\* C32: when an operation returns or raises, no key or mouse button that
\* the operation pressed is left held down: every injected down is matched
\* by an injected up on every path, the paths where an injection call or a
\* nested move fails included.
C32_NothingLeftDown ==
    inFlight.state \in {"returned", "raised"} =>
        \A i \in 1..Len(injected) : ~LeftDown(i)

\* C33: each failed top-level operation increases session.errorCount by
\* exactly one, a dragDrop whose nested move fails and a click whose
\* pre-move fails included.
C33_OneErrorPerFailedOperation ==
    Raised => session.errorCount = inFlight.before.errorCount + 1

(***************************************************************************)
(* C34: once the elapsed session time has reached maxSessionDuration,      *)
(* every periodic check of the Active monitor creates a new Critical       *)
(* excessive-usage alert and, emergency stop being enabled and a callback  *)
(* registered, invokes the emergency callback again; the check leaves the  *)
(* monitor Active with its timer armed for the next one.                   *)
(***************************************************************************)
SessionOverLimit ==
    Elapsed >= config.maxSessionDuration * MsPerMilleMinute

C34_NoLatchOverLimit ==
    (Checked /\ SessionOverLimit)
    => /\ Len(SelectSeq(last.created, IsCriticalExcessiveUsage)) = 1
       /\ (config.enableEmergencyStop /\ CallbackRegistered)
              => \E i \in 1..Len(last.cb) :
                     last.cb[i].site = "checkSessionDuration"
                  \/ last.cb[i].alert = "session_over_limit"
       /\ isActive
       /\ safetyCheckTimer = now + config.safetyCheckInterval * 1000

\* the second check over the limit: the alert of the first one is in the
\* list, the callback ran for both
C34_Witness ==
    /\ Checked
    /\ SessionOverLimit
    /\ config.enableEmergencyStop
    /\ CallbackRegistered
    /\ Len(SelectSeq(alerts, IsCriticalExcessiveUsage)) = 2
    /\ Len(SelectSeq(last.created, IsCriticalExcessiveUsage)) = 1
    /\ last.cb # <<>>
    /\ emergencyStops > Len(last.cb)

(***************************************************************************)
(* C35: while the monitor is Idle, recordInputEvent leaves the input       *)
(* history, the operation count and the alert list as they were, creates   *)
(* no alert and invokes no emergency callback.                             *)
(***************************************************************************)
C35_IdleRecordIgnored ==
    [][(emitted' = emitted + 1 /\ ~isActive)
       => /\ inputHistory' = inputHistory
          /\ usageStats' = usageStats
          /\ alerts' = alerts
          /\ emergencyStops' = emergencyStops
          /\ last'.created = <<>>
          /\ last'.cb = <<>>]_vars

\* a whole burst that starts with a low-confidence event and has two events
\* 10 ms apart was handed to a monitor that was never started
C35_Witness ==
    /\ ~isActive
    /\ safetyCheckTimer = NoTimer
    /\ emitted = Len(stream)
    /\ emitted >= MaxEvents - 1
    /\ stream[1].confidence < config.minHumanLikenessScore
    /\ stream[2].timestamp - stream[1].timestamp < ShortInterval
    /\ inputHistory = <<>>
    /\ usageStats.operationCount = 0
    /\ alerts = <<>>
    /\ emergencyStops = 0

(***************************************************************************)
(* C36: the interval timer is armed exactly while the monitor is Active    *)
(* and a timer is armed only when none is; startMonitoring on an Active    *)
(* monitor changes nothing (no second timer, the registered callback is    *)
(* kept) and stopMonitoring on an Idle monitor changes nothing.            *)
(***************************************************************************)
TimerArmed == safetyCheckTimer # NoTimer

\* a step of startMonitoring or stopMonitoring
LifecycleStep ==
    /\ last' = Quiet
    /\ now' = now
    /\ emitted' = emitted
    /\ sessionHistory' = sessionHistory

C36_OneTimerWhileActive ==
    /\ isActive <=> TimerArmed
    /\ [][/\ isActive' <=> TimerArmed'
          /\ (LifecycleStep /\ isActive' = isActive)
                 => UNCHANGED <<safetyCheckTimer, emergencyStopCallback,
                                alerts, usageStats, inputHistory,
                                emergencyStops>>
          /\ (TimerArmed /\ safetyCheckTimer' # safetyCheckTimer)
                 => (~TimerArmed' \/ Checked')]_vars

\* an Active monitor between bursts, some time after it was started: its
\* timer is the one startMonitoring armed and the callback the one it got
C36_Witness ==
    /\ isActive
    /\ TimerArmed
    /\ last = Quiet
    /\ BetweenBursts
    /\ now > 0
    /\ safetyCheckTimer < now + config.safetyCheckInterval * 1000
    /\ emergencyStopCallback = "returns"
    /\ alerts # <<>>

(***************************************************************************)
(* C37: while enableEmergencyStop is false or no callback is registered,   *)
(* no recorded event and no periodic check invokes an emergency callback   *)
(* (the manual check, performManualSafetyCheck, reads the state only).     *)
(***************************************************************************)
C37_NoCallbackUnlessEnabled ==
    [][(~config.enableEmergencyStop \/ ~CallbackRegistered)
       => /\ emergencyStops' = emergencyStops
          /\ (last' # last => last'.cb = <<>>)]_vars

\* emergency stop disabled, a callback registered: the periodic check over
\* the session limit has raised its Critical alert and no callback has run
C37_Witness ==
    /\ ~config.enableEmergencyStop
    /\ CallbackRegistered
    /\ Checked
    /\ SessionOverLimit
    /\ Len(SelectSeq(last.created, IsCriticalExcessiveUsage)) = 1
    /\ last.cb = <<>>
    /\ emergencyStops = 0

\* emergency stop enabled, startMonitoring called without a callback: the
\* same check
C37_WitnessNoCallback ==
    /\ config.enableEmergencyStop
    /\ ~CallbackRegistered
    /\ isActive
    /\ Checked
    /\ SessionOverLimit
    /\ Len(SelectSeq(last.created, IsCriticalExcessiveUsage)) = 1
    /\ emergencyStops = 0

(***************************************************************************)
(* Short-period windows: a monitor that is started and then handed one     *)
(* burst of events of a single type, or of two alternating types, 100 ms   *)
(* apart and of full confidence, with its periodic check running.          *)
(***************************************************************************)
\* events of the longest burst
MaxWindowEvents == 15

WindowStreams ==
    {EventStream(t, <<1000>>, <<100>>, n) :
         t \in {<<click>>, <<click, key>>},
         n \in MinAnalysisEvents..MaxWindowEvents}

WindowInit ==
    /\ config \in Configs
    /\ now = 0
    /\ isActive = FALSE
    /\ safetyCheckTimer = NoTimer
    /\ emergencyStopCallback = "undefined"
    /\ alerts = <<>>
    /\ usageStats = Constructed.stats
    /\ inputHistory = <<>>
    /\ sessionHistory = <<>>
    /\ stream \in WindowStreams
    /\ emitted = 0
    /\ emergencyStops = 0
    /\ last = Quiet
    /\ keyConfig = [key |-> "a", modifiers |-> <<>>]   \* no keyboard use here
    /\ ExecutorConstructed
    /\ RandomizerConstructed
    /\ CrawlerIdle
    /\ DetectorIdle

WindowNext ==
    \/ StartMonitoring("returns")
    \/ RecordInputEvent
    \/ TimerFires
    \/ AdvanceTime(24000)

WindowSpec == WindowInit /\ [][WindowNext]_vars

\* the types of the analysed window repeat with period 1 or 2
ShortPeriodWindow ==
    /\ Len(inputHistory) >= MinAnalysisEvents
    /\ \A i \in 1..(Len(WindowTypes) - 2) : WindowTypes[i] = WindowTypes[i + 2]

(***************************************************************************)
(* C38: a recent-event window that repeats with period 1 or 2 is never     *)
(* classified repetitive: the analysis does not call it repetitive (so the *)
(* safety score carries no pattern penalty), the manual check lists no     *)
(* repetitive-behaviour issue and no repetitive-pattern alert is created.  *)
(***************************************************************************)
C38_ShortPeriodNotRepetitive ==
    ShortPeriodWindow
    => /\ ~analyzeBehaviorPatterns.isRepetitive
       /\ analyzeBehaviorPatterns.patternStrength = 0
       /\ \A i \in performManualSafetyCheck.issues :
              i.type # "repetitive_behavior"
       /\ Checked => SelectSeq(last.created, IsRepetitivePattern) = <<>>

\* the last thing the call did was to save its checkpoint and write the
\* progress file
ProgressWritten ==
    /\ requests # <<>>
    /\ requests[Len(requests)] = Request("save", 0, "ok")

\* the lines of the progress file that hold the user
LinesOf(user) == {k \in 1..Len(outputFile) : outputFile[k] = user}

(***************************************************************************)
(* C40: the progress written in CSV format to a fixed output file holds    *)
(* each completed user that has an email exactly once, however many        *)
(* batches have been written (by the first crawl, which starts with no     *)
(* progress file).                                                         *)
(***************************************************************************)
C40_EachUserOnceInProgressFile ==
    (ProgressWritten /\ checkpointFile # NoCheckpoint /\ crawl.runs = 1)
    => \A k \in 1..Len(checkpointFile.completedUsers) :
           checkpointFile.completedUsers[k].email
               => Cardinality(LinesOf(checkpointFile.completedUsers[k])) = 1

(***************************************************************************)
(* CheckpointManager: the names of the checkpoint files.  A name is a      *)
(* sequence of characters; CHECKPOINT_EXTENSION is one character of it.    *)
(***************************************************************************)
\* bound on the length of a repository name
MaxNameLength == 4

\* bound on the number of repositories a checkpoint is saved for
MaxSaved == 2

Extension == ".checkpoint.json"

\* repo.match(/^([^\/]+)\/([^\/]+)$/)
validateRepository(repo) ==
    \E k \in 2..(Len(repo) - 1) :
        \A i \in 1..Len(repo) : (repo[i] = "/") <=> (i = k)

\* the repository names the command line accepts, over the letter a, the
\* underscore and the slash
RepositoryNames ==
    {repo \in UNION {[1..n -> {"a", "_", "/"}] : n \in 3..MaxNameLength} :
         validateRepository(repo)}

\* repository.replace(/[\/\\:]/g, '_') followed by the extension; the
\* directory part of the path is the same for every file
getCheckpointPath(repository) ==
    [i \in 1..Len(repository) |->
        IF repository[i] \in {"/", "\\", ":"} THEN "_" ELSE repository[i]]
    \o <<Extension>>

endsWith(file, suffix) == file # <<>> /\ file[Len(file)] = suffix

\* file.replace(CHECKPOINT_EXTENSION, ''): the first occurrence is removed
removeExtension(file) ==
    LET at == {k \in 1..Len(file) : file[k] = Extension}
    IN  IF at = {} THEN file
        ELSE LET k == CHOOSE k \in at : \A j \in at : k <= j
             IN  SubSeq(file, 1, k - 1) \o SubSeq(file, k + 1, Len(file))

\* .replace(/_/g, '/')
slashes(name) ==
    [i \in 1..Len(name) |-> IF name[i] = "_" THEN "/" ELSE name[i]]

\* the names listCheckpoints returns for the files of the directory
listCheckpoints ==
    {slashes(removeExtension(file)) :
         file \in {f \in checkpointDir : endsWith(f, Extension)}}

\* saveCheckpoint of a checkpoint of the repository
SaveCheckpointOf(repository) ==
    /\ Cardinality(savedRepositories) < MaxSaved
    /\ repository \notin savedRepositories
    /\ checkpointDir' = checkpointDir \cup {getCheckpointPath(repository)}
    /\ savedRepositories' = savedRepositories \cup {repository}
    /\ listedCheckpoints' = NotListed
    /\ UNCHANGED <<stargazers, checkpointFile, checkpoint, crawl, requests,
                   outputFile>>
    /\ UNCHANGED detectorVars
    /\ UNCHANGED pureVars
    /\ UNCHANGED monitorVars
    /\ UNCHANGED executorVars

ListCheckpoints ==
    /\ ~listedCheckpoints.called
    /\ listedCheckpoints' = [called |-> TRUE, names |-> listCheckpoints,
                             saved |-> savedRepositories]
    /\ UNCHANGED <<checkpointDir, savedRepositories>>
    /\ UNCHANGED <<stargazers, checkpointFile, checkpoint, crawl, requests,
                   outputFile>>
    /\ UNCHANGED detectorVars
    /\ UNCHANGED pureVars
    /\ UNCHANGED monitorVars
    /\ UNCHANGED executorVars

NamingInit ==
    /\ AgentIdle
    /\ DetectorIdle
    /\ CrawlerIdle

NamingNext ==
    \/ \E repository \in RepositoryNames : SaveCheckpointOf(repository)
    \/ ListCheckpoints

NamingSpec == NamingInit /\ [][NamingNext]_vars

(***************************************************************************)
(* C39: checkpoint naming is a round trip: listCheckpoints returns exactly *)
(* the repository names checkpoints were saved for, and two different      *)
(* repository names never map to the same checkpoint file.                 *)
(***************************************************************************)
C39_NamingRoundTrip ==
    /\ listedCheckpoints.called
           => listedCheckpoints.names = listedCheckpoints.saved
    /\ Cardinality(checkpointDir) = Cardinality(savedRepositories)

=============================================================================
